---- MODULE Spec2Model ----
(***************************************************************************)
(* MacSweep: the scan-classify-aggregate-delete pipeline of macsweep.py.   *)
(*                                                                         *)
(* Strings are sequences of one-character strings, so that lower(),        *)
(* endswith(), `in`, replace() and count() are computed character by       *)
(* character as Python computes them.  A filesystem node is named by the   *)
(* sequence of entry names leading to it from the scan root; its absolute  *)
(* path string is built with os.path.join from the root string.            *)
(***************************************************************************)
EXTENDS Integers, Sequences, FiniteSets, TLC

None == "none"

(***************************************************************************)
(* Bounds of the model.                                                    *)
(***************************************************************************)
MaxDepthBound == 3
MaxPaths == 2
MaxCalls == 2
MaxPicks == 2

(***************************************************************************)
(* str methods                                                             *)
(***************************************************************************)
UpperChars == <<"A","B","C","D","E","F","G","H","I","J","K","L","M",
                "N","O","P","Q","R","S","T","U","V","W","X","Y","Z">>
LowerChars == <<"a","b","c","d","e","f","g","h","i","j","k","l","m",
                "n","o","p","q","r","s","t","u","v","w","x","y","z">>

LowerChar(c) ==
    IF \E i \in 1..26 : UpperChars[i] = c
    THEN LowerChars[CHOOSE i \in 1..26 : UpperChars[i] = c]
    ELSE c

\* str.lower()
Lower(s) == [i \in 1..Len(s) |-> LowerChar(s[i])]

\* s[i:i+len(p)] == p
StartsAt(s, p, i) ==
    /\ i + Len(p) - 1 <= Len(s)
    /\ SubSeq(s, i, i + Len(p) - 1) = p

\* str.startswith(p)
StartsWith(s, p) == StartsAt(s, p, 1)

\* str.endswith(p)
EndsWith(s, p) ==
    /\ Len(p) <= Len(s)
    /\ SubSeq(s, Len(s) - Len(p) + 1, Len(s)) = p

\* p in s
Contains(s, p) == \E i \in 1..(Len(s) - Len(p) + 1) : StartsAt(s, p, i)

\* s.replace(old, ''), leftmost non-overlapping occurrences, for old # ''
RECURSIVE ReplaceFrom(_, _, _)
ReplaceFrom(s, old, i) ==
    IF i > Len(s) THEN << >>
    ELSE IF StartsAt(s, old, i) THEN ReplaceFrom(s, old, i + Len(old))
    ELSE <<s[i]>> \o ReplaceFrom(s, old, i + 1)

Replace(s, old) == ReplaceFrom(s, old, 1)

\* s.count(c) for a one-character c
Count(s, c) == Cardinality({i \in 1..Len(s) : s[i] = c})

Sep == "/"

\* os.path.join(a, b) for a relative b
Join(a, b) == IF a # << >> /\ a[Len(a)] = Sep THEN a \o b ELSE a \o <<Sep>> \o b

(***************************************************************************)
(* FileScanner.__init__: the ordered rule table file_types.                *)
(***************************************************************************)
P_cache == <<".","c","a","c","h","e">>
P_tmp == <<".","t","m","p">>
P_temp == <<".","t","e","m","p">>
P_DS_Store == <<".","D","S","_","S","t","o","r","e">>
P_log == <<".","l","o","g">>
P_out == <<".","o","u","t">>
P_err == <<".","e","r","r">>
P_bak == <<".","b","a","k">>
P_backup == <<".","b","a","c","k","u","p">>
P_old == <<".","o","l","d">>
P_orig == <<".","o","r","i","g">>
P_Downloads == <<"D","o","w","n","l","o","a","d","s">>
P_Trash == <<".","T","r","a","s","h">>
P_trash == <<".","t","r","a","s","h">>
P_node_modules == <<"n","o","d","e","_","m","o","d","u","l","e","s">>
P_git == <<".","g","i","t">>
P_pycache == <<"_","_","p","y","c","a","c","h","e","_","_">>
P_pytest_cache == <<".","p","y","t","e","s","t","_","c","a","c","h","e">>
P_dotvenv == <<".","v","e","n","v">>
P_venv == <<"v","e","n","v">>
P_Library == <<"L","i","b","r","a","r","y">>
P_LibCaches == P_Library \o <<"/","C","a","c","h","e","s">>
P_LibLogs == P_Library \o <<"/","L","o","g","s">>
P_LibAppSupport == P_Library \o <<"/","A","p","p","l","i","c","a","t","i","o","n",
                                  " ","S","u","p","p","o","r","t">>
P_LibSafari == P_Library \o <<"/","S","a","f","a","r","i">>
P_LibChrome == P_LibAppSupport \o <<"/","G","o","o","g","l","e","/","C","h","r","o","m","e">>
P_LibFirefox == P_LibAppSupport \o <<"/","F","i","r","e","f","o","x">>

\* the table with browser ahead of system
file_types_browser_first == <<
    [category |-> "cache", patterns |-> <<P_cache, P_tmp, P_temp, P_DS_Store>>],
    [category |-> "logs", patterns |-> <<P_log, P_out, P_err>>],
    [category |-> "backups", patterns |-> <<P_bak, P_backup, P_old, P_orig>>],
    [category |-> "downloads", patterns |-> <<P_Downloads>>],
    [category |-> "trash", patterns |-> <<P_Trash, P_trash>>],
    [category |-> "development",
     patterns |-> <<P_node_modules, P_git, P_pycache, P_pytest_cache, P_dotvenv, P_venv>>],
    [category |-> "browser", patterns |-> <<P_LibSafari, P_LibChrome, P_LibFirefox>>],
    [category |-> "system", patterns |-> <<P_LibCaches, P_LibLogs, P_LibAppSupport>>] >>

file_types == <<
    [category |-> "cache", patterns |-> <<P_cache, P_tmp, P_temp, P_DS_Store>>],
    [category |-> "logs", patterns |-> <<P_log, P_out, P_err>>],
    [category |-> "backups", patterns |-> <<P_bak, P_backup, P_old, P_orig>>],
    [category |-> "downloads", patterns |-> <<P_Downloads>>],
    [category |-> "trash", patterns |-> <<P_Trash, P_trash>>],
    [category |-> "development",
     patterns |-> <<P_node_modules, P_git, P_pycache, P_pytest_cache, P_dotvenv, P_venv>>],
    [category |-> "system", patterns |-> <<P_LibCaches, P_LibLogs, P_LibAppSupport>>],
    [category |-> "browser", patterns |-> <<P_LibSafari, P_LibChrome, P_LibFirefox>>] >>

PatternCategories == {file_types[i].category : i \in 1..Len(file_types)}
CleanupCategories == PatternCategories \cup {"large_files", "old_files"}

LargeFileBytes == 100 * 1024 * 1024
OldFileSeconds == 30 * 86400

\* the outcome of a stat call that raises OSError (sizes and times are >= 0)
StatErr == 0 - 1

(***************************************************************************)
(* FileScanner.categorize_file.  size and mtime are what os.path.getsize   *)
(* and os.path.getmtime return for file_path, or StatErr when they raise   *)
(* OSError; now is datetime.now() in seconds.                              *)
(***************************************************************************)
FilePatternHit(file_lower, path_lower, pattern) ==
    EndsWith(file_lower, Lower(pattern)) \/ Contains(path_lower, Lower(pattern))

\* the category loop run from the last category to the first
RECURSIVE FileLoopReversed(_, _, _, _)
FileLoopReversed(file_lower, path_lower, i, j) ==
    LET k == Len(file_types) + 1 - i IN
    IF i > Len(file_types) THEN None
    ELSE IF j > Len(file_types[k].patterns)
         THEN FileLoopReversed(file_lower, path_lower, i + 1, 1)
    ELSE IF FilePatternHit(file_lower, path_lower, file_types[k].patterns[j])
         THEN file_types[k].category
    ELSE FileLoopReversed(file_lower, path_lower, i, j + 1)

\* the two nested for loops, returning at the first hit
RECURSIVE FileLoop(_, _, _, _)
FileLoop(file_lower, path_lower, i, j) ==
    IF i > Len(file_types) THEN None
    ELSE IF j > Len(file_types[i].patterns) THEN FileLoop(file_lower, path_lower, i + 1, 1)
    ELSE IF FilePatternHit(file_lower, path_lower, file_types[i].patterns[j])
         THEN file_types[i].category
    ELSE FileLoop(file_lower, path_lower, i, j + 1)

categorize_file(file_path, filename, size, mtime, now) ==
    LET byPattern == FileLoop(Lower(filename), Lower(file_path), 1, 1) IN
    IF byPattern # None THEN byPattern
    ELSE IF size # StatErr /\ size > LargeFileBytes THEN "large_files"
    ELSE IF mtime # StatErr /\ mtime < now - OldFileSeconds THEN "old_files"
    ELSE None

(***************************************************************************)
(* FileScanner.categorize_directory                                        *)
(***************************************************************************)
DirPatternHit(dirname_lower, path_lower, pattern) ==
    dirname_lower = Lower(pattern) \/ Contains(path_lower, Lower(pattern))

RECURSIVE DirLoop(_, _, _, _)
DirLoop(dirname_lower, path_lower, i, j) ==
    IF i > Len(file_types) THEN None
    ELSE IF j > Len(file_types[i].patterns) THEN DirLoop(dirname_lower, path_lower, i + 1, 1)
    ELSE IF DirPatternHit(dirname_lower, path_lower, file_types[i].patterns[j])
         THEN file_types[i].category
    ELSE DirLoop(dirname_lower, path_lower, i, j + 1)

categorize_directory(dir_path, dirname) ==
    DirLoop(Lower(dirname), Lower(dir_path), 1, 1)

(***************************************************************************)
(* The filesystem the program runs on.  Universe lists every entry that    *)
(* can exist, in the order os.scandir returns the entries of a directory.  *)
(* A node is the sequence of names from the scan root; << >> is the root.  *)
(***************************************************************************)
N_alog == <<"a",".","l","o","g">>
N_ktxt == <<"k",".","t","x","t">>
N_dead == <<"d","e","a","d">>
N_git == <<".","g","i","t">>
N_cfg == <<"c","f","g">>
N_dcache == <<".","c","a","c","h","e">>
N_wlog == <<"w",".","l","o","g">>
N_nm == <<"n","o","d","e","_","m","o","d","u","l","e","s">>
N_ijs == <<"i",".","j","s">>
N_sub == <<"s","u","b">>
N_btmp == <<"b",".","t","m","p">>
N_big == <<"b","i","g",".","d","a","t">>
N_deep == <<"d","e","e","p">>
N_olddat == <<"o","l","d",".","d","a","t">>
N_edge == <<"e","d","g","e">>
N_d3 == <<"d","3">>
N_zlog == <<"z",".","l","o","g">>
N_priv == <<"p","r","i","v">>
N_plog == <<"p",".","l","o","g">>
N_gone == <<"g","o","n","e">>

Now == 100 * 86400
Recent == Now - 86400
Edge30 == Now - OldFileSeconds
Old40 == Now - 40 * 86400

\* a regular file
RegFile(n, sz, mt) ==
    [node |-> n, kind |-> "file", size |-> sz, mtime |-> mt, statFails |-> FALSE, noEnter |-> FALSE]
\* a directory entry os.walk lists among the files and os.stat fails on (a dangling link)
DeadLink(n) ==
    [node |-> n, kind |-> "file", size |-> 0, mtime |-> Recent, statFails |-> TRUE, noEnter |-> FALSE]
\* a directory; noEnter: os.scandir on it raises PermissionError
Dir(n, ne) ==
    [node |-> n, kind |-> "dir", size |-> 0, mtime |-> Recent, statFails |-> FALSE, noEnter |-> ne]

Universe == <<
    DeadLink(<<N_dead>>),
    RegFile(<<N_alog>>, 10, Recent),
    RegFile(<<N_ktxt>>, 5, Recent),
    Dir(<<N_git>>, FALSE),
    RegFile(<<N_git, N_cfg>>, 7, Recent),
    Dir(<<N_dcache>>, FALSE),
    RegFile(<<N_dcache, N_wlog>>, 20, Recent),
    Dir(<<N_nm>>, FALSE),
    RegFile(<<N_nm, N_ijs>>, 30, Recent),
    Dir(<<N_priv>>, TRUE),
    RegFile(<<N_priv, N_plog>>, 9, Recent),
    Dir(<<N_sub>>, FALSE),
    RegFile(<<N_sub, N_btmp>>, 20, Recent),
    RegFile(<<N_sub, N_ktxt>>, 5, Recent),
    RegFile(<<N_sub, N_big>>, 150 * 1024 * 1024, Recent),
    Dir(<<N_sub, N_deep>>, FALSE),
    RegFile(<<N_sub, N_deep, N_olddat>>, 1024, Old40),
    RegFile(<<N_sub, N_deep, N_edge>>, LargeFileBytes, Edge30),
    Dir(<<N_sub, N_deep, N_d3>>, FALSE),
    RegFile(<<N_sub, N_deep, N_d3, N_zlog>>, 3, Recent) >>

(***************************************************************************)
(* The home directory the format analysis and the quick scan run on: the   *)
(* same tree seen from the top string "/u", with the entries below beside  *)
(* those of Universe.                                                      *)
(***************************************************************************)
HomeStr == <<"/","u">>

N_Downloads == <<"D","o","w","n","l","o","a","d","s">>
N_reportPDF == <<"r","e","p","o","r","t",".","P","D","F">>
N_photojpeg == <<"p","h","o","t","o",".","j","p","e","g">>
N_notes == <<"n","o","t","e","s">>
N_dotPDF == <<".","P","D","F">>
N_brokenPdf == <<"b","r","o","k","e","n",".","P","d","f">>
N_readmedot == <<"r","e","a","d","m","e",".">>
N_diskDMG == <<"d","i","s","k",".","D","M","G">>
N_old == <<"o","l","d">>
N_Reportpdf == <<"R","e","p","o","r","t",".","p","d","f">>
N_btarGZ == <<"b",".","t","a","r",".","G","Z">>

HomeUniverse == <<
    Dir(<<N_Downloads>>, FALSE),
    RegFile(<<N_Downloads, N_reportPDF>>, 100, Recent),
    RegFile(<<N_Downloads, N_photojpeg>>, 200, Recent),
    RegFile(<<N_Downloads, N_notes>>, 5, Recent),
    RegFile(<<N_Downloads, N_dotPDF>>, 7, Recent),
    DeadLink(<<N_Downloads, N_brokenPdf>>),
    RegFile(<<N_Downloads, N_readmedot>>, 30, Recent),
    RegFile(<<N_Downloads, N_diskDMG>>, 100, Recent),
    Dir(<<N_Downloads, N_old>>, FALSE),
    RegFile(<<N_Downloads, N_old, N_Reportpdf>>, 40, Recent),
    RegFile(<<N_Downloads, N_old, N_btarGZ>>, 60, Old40) >>

\* what the quick scan finds under the home directory besides Downloads and .cache
N_Library == <<"L","i","b","r","a","r","y">>
N_Caches == <<"C","a","c","h","e","s">>
N_cbin == <<"c",".","b","i","n">>
N_app == <<"a","p","p">>
N_adb == <<"a",".","d","b">>
N_Logs == <<"L","o","g","s">>
N_slog == <<"s",".","l","o","g">>
N_ctmp == <<"c",".","t","m","p">>
N_dtmp == <<".","t","m","p">>
N_ttmp == <<"t",".","t","m","p">>
N_utemp == <<"u",".","t","e","m","p">>

QuickUniverse == <<
    Dir(<<N_Library>>, FALSE),
    Dir(<<N_Library, N_Caches>>, FALSE),
    RegFile(<<N_Library, N_Caches, N_cbin>>, 11, Recent),
    Dir(<<N_Library, N_Caches, N_app>>, FALSE),
    RegFile(<<N_Library, N_Caches, N_app, N_adb>>, 15, Recent),
    Dir(<<N_Library, N_Logs>>, FALSE),
    RegFile(<<N_Library, N_Logs, N_slog>>, 12, Recent),
    RegFile(<<N_Library, N_Logs, N_ctmp>>, 13, Recent),
    Dir(<<N_dtmp>>, FALSE),
    RegFile(<<N_dtmp, N_ttmp>>, 14, Recent),
    RegFile(<<N_dtmp, N_utemp>>, 16, Recent) >>

Everything == Universe \o HomeUniverse \o QuickUniverse

UniverseNodes == [i \in 1..Len(Everything) |-> Everything[i].node]
AllNodes == {Universe[i].node : i \in 1..Len(Universe)} \cup {<< >>}

RootInfo == Dir(<< >>, FALSE)
Attr(n) ==
    IF n = << >> THEN RootInfo
    ELSE Everything[CHOOSE i \in 1..Len(Everything) : Everything[i].node = n]

\* a is b or an ancestor directory of b
IsPrefix(a, b) == Len(a) <= Len(b) /\ SubSeq(b, 1, Len(a)) = a
Inside(d, n) == Len(d) < Len(n) /\ IsPrefix(d, n)
Parent(n) == SubSeq(n, 1, Len(n) - 1)
Name(n) == n[Len(n)]

\* os.scandir(d): the entries of d, split by os.walk into dirs and files
ListDir(fsys, d) ==
    SelectSeq(UniverseNodes, LAMBDA n : n \in fsys /\ Len(n) = Len(d) + 1 /\ IsPrefix(d, n))
ListDirs(fsys, d) == SelectSeq(ListDir(fsys, d), LAMBDA n : Attr(n).kind = "dir")
ListFiles(fsys, d) == SelectSeq(ListDir(fsys, d), LAMBDA n : Attr(n).kind = "file")

\* the path string os.walk builds for node n when started at string top
RECURSIVE PathOf(_, _)
PathOf(top, n) == IF n = << >> THEN top ELSE Join(PathOf(top, Parent(n)), Name(n))

\* the root strings a caller may pass: "/r", "/r/" and "/"
RootPaths == { <<"/","r">>, <<"/","r","/">>, <<"/">> }

\* the trees a scan may run on: the universe without some top-level subtrees
Prunable == { <<N_git>>, <<N_dcache>>, <<N_nm>> }
Trees == { {n \in AllNodes : \A d \in omit : ~IsPrefix(d, n)} : omit \in SUBSET Prunable }

VARIABLES
    fs,             \* the nodes that exist on the filesystem
    locked,         \* the nodes whose removal raises OSError
    rootStr,        \* scan: the path argument
    max_depth,      \* scan: the max_depth argument
    show_progress,  \* scan: the show_progress argument
    scanPc,         \* scan: "idle", "walking", "done"
    walkStack,      \* scan: the directories os.walk has still to yield, next first
    results,        \* scan: category -> sequence of (path, size, mtime)
    total_files,    \* scan: what count_files returned, NoTotal without progress
    progress,       \* scan: ProgressBar.current
    attempts,       \* scan: the number of categorize_file calls made
    visited,        \* scan: the files the file loop has run for
    evaluated,      \* scan: the directories categorize_directory was called on
    yielded,        \* scan: the directories os.walk has yielded
    paths,          \* cleanup: the files argument
    dry_run,        \* CleanupEngine.dry_run
    verbose,        \* CleanupEngine.verbose
    clPc,           \* cleanup: "idle", "running", "done"
    idx,            \* cleanup: index of the next path of the for loop
    files_removed,  \* cleanup: the local files_removed
    bytes_freed,    \* cleanup: the local bytes_freed
    outcome,        \* cleanup: per path handled so far, what happened to it
    fs0,            \* cleanup: the filesystem when the running call began
    calls,          \* cleanup: the calls that returned, oldest first
    cfIn,           \* categorize_file: the arguments and stat results
    cfOut,          \* categorize_file: the value returned, Pending before the call
    cdOut,          \* categorize_directory: the value returned on the same arguments
    ffIn,           \* categorize_file_format: the extension and what the MIME probe gives
    ffOut,          \* categorize_file_format: the value returned
    sizeIn,         \* get_directory_size: the path argument
    sizeOut,        \* get_directory_size: the value returned
    fmtPc,          \* format analysis: "idle", "walking", "analyzed", "selected"
    fmtQueue,       \* format analysis: the files os.walk has still to hand out
    format_analysis, \* format analysis: category -> extension -> entries, in insertion order
    selected_formats, \* format analysis: what select_downloads_formats returned
    fmtChoice,      \* format analysis: what the user entered at the selection prompt
    collected_files, \* format analysis: what collect_files_by_formats returned
    quickIdx,       \* quick scan: index of the next entry of common_paths
    scan_results,   \* quick scan: the merged category -> entries
    perRoot,        \* quick scan: what each scan_directory call returned, in order
    flowPc,         \* main / MacSweepGUI: where the scan-select-confirm-clean flow stands
    selected_categories, \* main / MacSweepGUI: what the selection returned
    ui,             \* "cli" for main, "gui" for MacSweepGUI
    answer          \* main / MacSweepGUI: the reply to the confirmation, "unasked" before

envVars == <<fs, locked>>
scanVars == <<rootStr, max_depth, show_progress, scanPc, walkStack, results,
              total_files, progress, attempts, visited, evaluated, yielded>>
cleanVars == <<paths, dry_run, verbose, clPc, idx, files_removed, bytes_freed,
               outcome, fs0, calls>>
classVars == <<cfIn, cfOut>>
pureVars == <<cdOut, ffIn, ffOut, sizeIn, sizeOut>>
fmtVars == <<fmtPc, fmtQueue, format_analysis, selected_formats, fmtChoice,
             collected_files>>
quickVars == <<quickIdx, scan_results, perRoot>>
flowVars == <<flowPc, selected_categories, ui, answer>>
moreVars == <<pureVars, fmtVars, quickVars, flowVars>>
vars == <<envVars, scanVars, cleanVars, classVars, moreVars>>

NoTotal == 0 - 1
Pending == "pending"

(***************************************************************************)
(* FileScanner.get_directory_size (CleanupEngine.get_directory_size is the *)
(* same code): os.walk over everything below path, adding the size of      *)
(* every file whose getsize succeeds.  os.walk ignores a directory whose   *)
(* scandir fails.                                                          *)
(***************************************************************************)
\* the sum given up at the first file whose stat fails
RECURSIVE SumSizesAbort(_, _)
SumSizesAbort(files, i) ==
    IF i > Len(files) THEN 0
    ELSE IF Attr(files[i]).statFails THEN 0
    ELSE Attr(files[i]).size + SumSizesAbort(files, i + 1)

RECURSIVE SumSizes(_, _)
SumSizes(files, i) ==
    IF i > Len(files) THEN 0
    ELSE (IF Attr(files[i]).statFails THEN 0 ELSE Attr(files[i]).size)
         + SumSizes(files, i + 1)

RECURSIVE SizeWalk(_, _)
SizeWalk(fsys, stack) ==
    IF stack = << >> THEN 0
    ELSE LET d == Head(stack) IN
         IF Attr(d).noEnter THEN SizeWalk(fsys, Tail(stack))
         ELSE SumSizes(ListFiles(fsys, d), 1)
              + SizeWalk(fsys, ListDirs(fsys, d) \o Tail(stack))

get_directory_size(fsys, d) == SizeWalk(fsys, <<d>>)

(***************************************************************************)
(* The two lines both walks share: the depth of the yielded directory and  *)
(* the filter of the directories to descend into.                          *)
(***************************************************************************)
\* root.replace(path, '').count(os.sep)
current_depth(root, path) == Count(Replace(root, path), Sep)

HiddenAllowList == {P_cache, P_tmp, P_trash, P_Trash}

\* the filter without its allow-list
KeepDirNoAllowList(n) == ~StartsWith(Name(n), <<".">>)

\* not d.startswith('.') or d in ['.cache', '.tmp', '.trash', '.Trash']
KeepDir(n) == ~StartsWith(Name(n), <<".">>) \/ Name(n) \in HiddenAllowList

\* dirs[:] = [d for d in dirs if ...]
FilterDirs(dirs) == SelectSeq(dirs, KeepDir)

(***************************************************************************)
(* FileScanner.count_files                                                 *)
(***************************************************************************)
\* count_files with the hidden-directory filter left out
RECURSIVE CountWalkUnfiltered(_, _, _, _)
CountWalkUnfiltered(fsys, path, maxd, stack) ==
    IF stack = << >> THEN 0
    ELSE LET d == Head(stack) IN
         IF Attr(d).noEnter THEN CountWalkUnfiltered(fsys, path, maxd, Tail(stack))
         ELSE IF current_depth(PathOf(path, d), path) >= maxd
              THEN CountWalkUnfiltered(fsys, path, maxd, Tail(stack))
         ELSE Len(ListFiles(fsys, d))
              + CountWalkUnfiltered(fsys, path, maxd, ListDirs(fsys, d) \o Tail(stack))

RECURSIVE CountWalk(_, _, _, _)
CountWalk(fsys, path, maxd, stack) ==
    IF stack = << >> THEN 0
    ELSE LET d == Head(stack) IN
         IF Attr(d).noEnter THEN CountWalk(fsys, path, maxd, Tail(stack))
         ELSE IF current_depth(PathOf(path, d), path) >= maxd
              THEN CountWalk(fsys, path, maxd, Tail(stack))
         ELSE Len(ListFiles(fsys, d))
              + CountWalk(fsys, path, maxd, FilterDirs(ListDirs(fsys, d)) \o Tail(stack))

count_files(fsys, path, maxd) == CountWalk(fsys, path, maxd, << << >> >>)

(***************************************************************************)
(* FileScanner.scan_directory: the body of one os.walk iteration.          *)
(***************************************************************************)
Entry(top, n, sz) == [path |-> PathOf(top, n), size |-> sz, mtime |-> Attr(n).mtime, node |-> n]

Append1(res, cat, e) == [res EXCEPT ![cat] = Append(@, e)]

\* the file loop appending under every category with a matching pattern
RECURSIVE AppendAllHits(_, _, _, _, _)
AppendAllHits(res, file_lower, path_lower, e, i) ==
    IF i > Len(file_types) THEN res
    ELSE IF \E j \in 1..Len(file_types[i].patterns) :
                FilePatternHit(file_lower, path_lower, file_types[i].patterns[j])
         THEN AppendAllHits(Append1(res, file_types[i].category, e),
                            file_lower, path_lower, e, i + 1)
    ELSE AppendAllHits(res, file_lower, path_lower, e, i + 1)

RECURSIVE FileLoopBodyAllHits(_, _, _, _)
FileLoopBodyAllHits(res, top, files, i) ==
    IF i > Len(files) THEN res
    ELSE LET f == files[i] IN
         IF Attr(f).statFails
         THEN FileLoopBodyAllHits(res, top, files, i + 1)
         ELSE FileLoopBodyAllHits(
                  AppendAllHits(res, Lower(Name(f)), Lower(PathOf(top, f)),
                                Entry(top, f, Attr(f).size), 1),
                  top, files, i + 1)

\* for file in files: stat, categorize_file, results[category].append
RECURSIVE FileLoopBody(_, _, _, _)
FileLoopBody(res, top, files, i) ==
    IF i > Len(files) THEN res
    ELSE LET f == files[i]
             cat == categorize_file(PathOf(top, f), Name(f), Attr(f).size, Attr(f).mtime, Now)
         IN  IF Attr(f).statFails \/ cat = None
             THEN FileLoopBody(res, top, files, i + 1)
             ELSE FileLoopBody(Append1(res, cat, Entry(top, f, Attr(f).size)), top, files, i + 1)

\* for dir_name in dirs: categorize_directory, get_directory_size, append
RECURSIVE DirLoopBody(_, _, _, _, _)
DirLoopBody(res, fsys, top, dirs, i) ==
    IF i > Len(dirs) THEN res
    ELSE LET d == dirs[i]
             cat == categorize_directory(PathOf(top, d), Name(d))
         IN  IF cat = None
             THEN DirLoopBody(res, fsys, top, dirs, i + 1)
             ELSE DirLoopBody(Append1(res, cat, Entry(top, d, get_directory_size(fsys, d))),
                              fsys, top, dirs, i + 1)

SeqToSet(q) == {q[i] : i \in 1..Len(q)}
StatOk(files) == SelectSeq(files, LAMBDA f : ~Attr(f).statFails)

EmptyResults == [c \in CleanupCategories |-> << >>]

(***************************************************************************)
(* Initial states.  Each specification starts its own component from the   *)
(* inputs a caller can pass and leaves the other components idle.          *)
(***************************************************************************)
ScanIdle ==
    /\ scanPc = "idle"
    /\ walkStack = << >>
    /\ results = EmptyResults
    /\ total_files = NoTotal
    /\ progress = 0
    /\ attempts = 0
    /\ visited = {}
    /\ evaluated = {}
    /\ yielded = {}

CleanIdle ==
    /\ clPc = "idle"
    /\ idx = 1
    /\ files_removed = 0
    /\ bytes_freed = 0
    /\ outcome = << >>
    /\ fs0 = fs
    /\ calls = << >>

\* The arguments of a scan and of a cleanup in a specification that runs neither
ScanArgsIdle ==
    /\ rootStr = <<"/","r">>
    /\ max_depth = 0
    /\ show_progress = FALSE

CleanArgsIdle ==
    /\ paths = << >>
    /\ dry_run = FALSE
    /\ verbose = FALSE

ClassIdle ==
    /\ cfIn = [path |-> << >>, name |-> << >>, size |-> 0, mtime |-> 0]
    /\ cfOut = Pending

PureIdle ==
    /\ cdOut = Pending
    /\ ffIn = [extension |-> << >>, mime |-> [raises |-> FALSE, mime_type |-> << >>]]
    /\ ffOut = Pending
    /\ sizeIn = << >>
    /\ sizeOut = NoTotal

FormatIdle ==
    /\ fmtPc = "idle"
    /\ fmtQueue = << >>
    /\ format_analysis = << >>
    /\ selected_formats = << >>
    /\ fmtChoice = [kind |-> "unasked", numbers |-> << >>]
    /\ collected_files = << >>

QuickIdle ==
    /\ quickIdx = 1
    /\ scan_results = EmptyResults
    /\ perRoot = << >>

FlowIdle ==
    /\ flowPc = "idle"
    /\ selected_categories = << >>
    /\ ui = "cli"
    /\ answer = "unasked"

MoreIdle == PureIdle /\ FormatIdle /\ QuickIdle /\ FlowIdle

InitScan ==
    /\ fs \in Trees
    /\ locked = {}
    /\ rootStr \in RootPaths
    /\ max_depth \in 0..MaxDepthBound
    /\ show_progress \in BOOLEAN
    /\ ScanIdle
    /\ paths = << >>
    /\ dry_run = FALSE
    /\ verbose = FALSE
    /\ CleanIdle
    /\ ClassIdle
    /\ MoreIdle

(***************************************************************************)
(* FileScanner.scan_directory, one action per os.walk iteration.           *)
(***************************************************************************)
\* lines 105-113: results, count_files for the progress bar, os.walk(path)
ScanStart ==
    /\ scanPc = "idle"
    /\ scanPc' = "walking"
    /\ total_files' = IF show_progress THEN count_files(fs, rootStr, max_depth) ELSE NoTotal
    /\ walkStack' = << << >> >>
    /\ results' = EmptyResults
    /\ UNCHANGED <<rootStr, max_depth, show_progress, progress, attempts, visited,
                   evaluated, yielded>>
    /\ UNCHANGED <<envVars, cleanVars, classVars, moreVars>>

\* the walk ended by the first directory that cannot be listed
WalkUnreadableAbort ==
    /\ scanPc = "walking"
    /\ walkStack # << >>
    /\ Attr(Head(walkStack)).noEnter
    /\ walkStack' = << >>
    /\ UNCHANGED <<rootStr, max_depth, show_progress, scanPc, results, total_files,
                   progress, attempts, visited, evaluated, yielded>>
    /\ UNCHANGED <<envVars, cleanVars, classVars, moreVars>>

\* os.walk: scandir of the next directory fails, nothing is yielded for it
WalkUnreadable ==
    /\ scanPc = "walking"
    /\ walkStack # << >>
    /\ Attr(Head(walkStack)).noEnter
    /\ walkStack' = Tail(walkStack)
    /\ UNCHANGED <<rootStr, max_depth, show_progress, scanPc, results, total_files,
                   progress, attempts, visited, evaluated, yielded>>
    /\ UNCHANGED <<envVars, cleanVars, classVars, moreVars>>

\* lines 118-121: current_depth >= max_depth: dirs[:] = [] and continue
WalkDepthCut ==
    /\ scanPc = "walking"
    /\ walkStack # << >>
    /\ LET d == Head(walkStack) IN
        /\ ~Attr(d).noEnter
        /\ current_depth(PathOf(rootStr, d), rootStr) >= max_depth
        /\ yielded' = yielded \cup {d}
    /\ walkStack' = Tail(walkStack)
    /\ UNCHANGED <<rootStr, max_depth, show_progress, scanPc, results, total_files,
                   progress, attempts, visited, evaluated>>
    /\ UNCHANGED <<envVars, cleanVars, classVars, moreVars>>

\* lines 123-154: filter dirs, the file loop, the directory loop; os.walk then
\* descends into what is left of dirs
WalkVisit ==
    /\ scanPc = "walking"
    /\ walkStack # << >>
    /\ LET d == Head(walkStack)
           dirs == FilterDirs(ListDirs(fs, d))
           files == ListFiles(fs, d)
       IN
        /\ ~Attr(d).noEnter
        /\ current_depth(PathOf(rootStr, d), rootStr) < max_depth
        /\ results' = DirLoopBody(FileLoopBody(results, rootStr, files, 1),
                                  fs, rootStr, dirs, 1)
        /\ progress' = IF show_progress THEN progress + Len(files) ELSE progress
        /\ attempts' = attempts + Len(StatOk(files))
        /\ visited' = visited \cup SeqToSet(files)
        /\ evaluated' = evaluated \cup SeqToSet(dirs)
        /\ yielded' = yielded \cup {d}
        /\ walkStack' = dirs \o Tail(walkStack)
    /\ UNCHANGED <<rootStr, max_depth, show_progress, scanPc, total_files>>
    /\ UNCHANGED <<envVars, cleanVars, classVars, moreVars>>

\* lines 159-163: os.walk is exhausted, return results
ScanFinish ==
    /\ scanPc = "walking"
    /\ walkStack = << >>
    /\ scanPc' = "done"
    /\ UNCHANGED <<rootStr, max_depth, show_progress, walkStack, results, total_files,
                   progress, attempts, visited, evaluated, yielded>>
    /\ UNCHANGED <<envVars, cleanVars, classVars, moreVars>>

NextScan ==
    \/ ScanStart
    \/ WalkUnreadable
    \/ WalkDepthCut
    \/ WalkVisit
    \/ ScanFinish

SpecScan == InitScan /\ [][NextScan]_vars

(***************************************************************************)
(* Properties of a scan.                                                   *)
(***************************************************************************)
\* every (category, index) position of the ScanResult
Positions == {<<c, i>> \in CleanupCategories \X (1..Len(Universe)) : i <= Len(results[c])}
EntryAt(pos) == results[pos[1]][pos[2]]
Entries == {EntryAt(pos) : pos \in Positions}
EntryNodes == {e.node : e \in Entries}

IsHiddenName(name) == name[1] = "."
IsAllowListed(name) ==
    name \in { <<".","c","a","c","h","e">>, <<".","t","m","p">>,
               <<".","t","r","a","s","h">>, <<".","T","r","a","s","h">> }

\* the directories whose loop bodies ran (depth below the cutoff)
BodyRan(d) == d \in yielded /\ current_depth(PathOf(rootStr, d), rootStr) < max_depth

\* the subdirectories that exist directly under d
SubDirs(d) == {n \in fs : Attr(n).kind = "dir" /\ Len(n) = Len(d) + 1 /\ IsPrefix(d, n)}

\* C2: a directory matched by categorize_directory is recorded as exactly one
\* entry, sized as the recursive sum of its contents, and no file inside it is
\* a separate entry of the same ScanResult.
C2_DirectoryIsTheUnit ==
    \A pos \in Positions :
        Attr(EntryAt(pos).node).kind = "dir" =>
            /\ EntryAt(pos).size = get_directory_size(fs, EntryAt(pos).node)
            /\ \A other \in Positions :
                   EntryAt(other).node = EntryAt(pos).node => other = pos
            /\ (scanPc = "done" =>
                   \A e \in Entries :
                       ~(Attr(e.node).kind = "file" /\ Inside(EntryAt(pos).node, e.node)))

\* C6: every entry lies in a directory fewer than max_depth levels below the
\* root, no file of a directory at depth >= max_depth is visited, and with
\* max_depth = 0 the result is empty.
C6_DepthInvariant ==
    /\ \A e \in Entries : Len(Parent(e.node)) < max_depth
    /\ \A f \in visited : Len(Parent(f)) < max_depth
    /\ (max_depth = 0 => Entries = {})

\* C7 as stated: count_files returns the number of categorize_file calls the
\* scan makes, also when the stat of some file fails.
C7_CountEqualsClassifications ==
    (scanPc = "done" /\ show_progress) => total_files = attempts

\* C7 amended: count_files returns the number of files the scan visits (one
\* progress update each): the categorize_file calls plus the files whose stat
\* fails.
C7_CountEqualsVisits ==
    (scanPc = "done" /\ show_progress) =>
        /\ total_files = progress
        /\ total_files = Cardinality(visited)
        /\ total_files = attempts + Cardinality({f \in visited : Attr(f).statFails})

C7_Witness ==
    /\ scanPc = "done"
    /\ show_progress
    /\ attempts > 0
    /\ attempts < total_files
    /\ \E d \in fs : Attr(d).kind = "dir" /\ d \notin yielded /\ ~Attr(d).noEnter

\* C8: within one ScanResult every path appears at most once, over all
\* categories and all positions.
C8_PathsUnique ==
    \A p1 \in Positions : \A p2 \in Positions :
        EntryAt(p1).path = EntryAt(p2).path => p1 = p2

C8_Witness ==
    /\ scanPc = "done"
    /\ \E c \in CleanupCategories : Len(results[c]) >= 2
    /\ Cardinality({pos[1] : pos \in Positions}) >= 3
    /\ \E e \in Entries : Cardinality({c \in 1..Len(file_types) :
           \E j \in 1..Len(file_types[c].patterns) :
               FilePatternHit(Lower(Name(e.node)), Lower(e.path),
                              file_types[c].patterns[j])}) >= 2

\* C9: every subdirectory of a visited directory, hidden ones included, is
\* evaluated by categorize_directory, and each one that matches is recorded;
\* so .git, .venv or .pytest_cache under a visited directory is an entry of
\* development.
C9_EverySubdirEvaluated ==
    scanPc = "done" =>
        \A d \in fs : BodyRan(d) =>
            \A sub \in SubDirs(d) :
                /\ sub \in evaluated
                /\ categorize_directory(PathOf(rootStr, sub), Name(sub)) # None
                       => sub \in EntryNodes
                /\ Name(sub) = <<".","g","i","t">> =>
                       \E i \in 1..Len(results["development"]) :
                           results["development"][i].node = sub

\* C10: the scan never descends into a hidden directory that is not on the
\* allow-list (nothing below one is yielded, visited or recorded), and an
\* allow-listed hidden directory under a visited directory is both evaluated
\* as a candidate and descended into.
C10_HiddenDescent ==
    /\ \A n \in visited \cup EntryNodes :
           \A k \in 1..(Len(n) - 1) : IsHiddenName(n[k]) => IsAllowListed(n[k])
    /\ \A d \in yielded \cup SeqToSet(walkStack) :
           \A k \in 1..Len(d) : IsHiddenName(d[k]) => IsAllowListed(d[k])
    /\ scanPc = "done" =>
           \A d \in fs : BodyRan(d) =>
               \A sub \in SubDirs(d) :
                   (IsHiddenName(Name(sub)) /\ IsAllowListed(Name(sub))) =>
                       /\ sub \in evaluated
                       /\ sub \in EntryNodes
                       /\ ~Attr(sub).noEnter => sub \in yielded

C10_Witness ==
    /\ scanPc = "done"
    /\ <<N_git>> \in fs
    /\ <<N_git, N_cfg>> \notin visited
    /\ <<N_dcache>> \in evaluated
    /\ <<N_dcache>> \in yielded
    /\ <<N_dcache, N_wlog>> \in visited

(***************************************************************************)
(* categorize_file on its own: the arguments and the results of its two    *)
(* stat calls are drawn from the sets below, then the function is applied. *)
(***************************************************************************)
N_XLOG == <<"X",".","L","O","G">>
N_xbak == <<"x",".","b","a","k">>
N_DSStore == <<".","D","S","_","S","t","o","r","e">>
N_data == <<"d","a","t","a">>
N_Chrome == <<"C","h","r","o","m","e">>
N_Firefox == <<"F","i","r","e","f","o","x">>
N_Safari == <<"S","a","f","a","r","i">>

ClassNames == {N_alog, N_XLOG, N_ktxt, N_xbak, N_DSStore, N_btmp, N_data, N_ijs,
               N_Chrome, N_Firefox, N_Safari}

ClassDirs == {
    <<"/","r">>,
    <<"/","r","/">> \o P_Trash,
    <<"/","r","/">> \o P_node_modules,
    <<"/","u","/">> \o P_Downloads,
    <<"/","u","/">> \o P_LibCaches,
    <<"/","u","/">> \o P_LibSafari,
    <<"/","u","/">> \o P_LibChrome,
    <<"/","u","/">> \o P_LibFirefox,
    <<"/","u","/">> \o P_LibAppSupport \o <<"/","G","o","o","g","l","e">>,
    <<"/","u","/">> \o P_LibAppSupport,
    <<"/","u","/">> \o P_Library,
    <<"/","U","/","L","I","B","R","A","R","Y","/","a","p","p","l","i","c","a","t","i","o","n",
      " ","s","u","p","p","o","r","t","/","f","i","r","e","f","o","x","/","p">>,
    <<"/","r","/","m","y",".","l","o","g","s">> }

ClassSizes == {10, LargeFileBytes, LargeFileBytes + 1, StatErr}
ClassMtimes == {Recent, Edge30, Old40, StatErr}

InitClassify ==
    /\ \E d \in ClassDirs, n \in ClassNames, sz \in ClassSizes, mt \in ClassMtimes :
           cfIn = [path |-> Join(d, n), name |-> n, size |-> sz, mtime |-> mt]
    /\ cfOut = Pending
    /\ fs = AllNodes
    /\ locked = {}
    /\ rootStr = <<"/","r">>
    /\ max_depth = 0
    /\ show_progress = FALSE
    /\ ScanIdle
    /\ paths = << >>
    /\ dry_run = FALSE
    /\ verbose = FALSE
    /\ CleanIdle
    /\ MoreIdle

\* category = self.categorize_file(file_path, file)
Classify ==
    /\ cfOut = Pending
    /\ cfOut' = categorize_file(cfIn.path, cfIn.name, cfIn.size, cfIn.mtime, Now)
    /\ UNCHANGED <<cfIn, envVars, scanVars, cleanVars, moreVars>>

\* category = self.categorize_directory(dir_path, dir_name), on the same path
\* taken as that of a directory
ClassifyDir ==
    /\ cdOut = Pending
    /\ cdOut' = categorize_directory(cfIn.path, cfIn.name)
    /\ UNCHANGED <<ffIn, ffOut, sizeIn, sizeOut>>
    /\ UNCHANGED <<envVars, scanVars, cleanVars, classVars, fmtVars, quickVars, flowVars>>

NextClassify == Classify \/ ClassifyDir

SpecClassify == InitClassify /\ [][NextClassify]_vars

\* the rules of the contract, stated position by position
RuleSuffix(s, p) ==
    /\ Len(p) <= Len(s)
    /\ \A k \in 1..Len(p) : s[Len(s) - Len(p) + k] = LowerChar(p[k])
RuleInfix(s, p) ==
    \E off \in 0..(Len(s) - Len(p)) : \A k \in 1..Len(p) : s[off + k] = LowerChar(p[k])
RuleHit(i) ==
    \E j \in 1..Len(file_types[i].patterns) :
        \/ RuleSuffix(Lower(cfIn.name), file_types[i].patterns[j])
        \/ RuleInfix(Lower(cfIn.path), file_types[i].patterns[j])
DeclaredOrder ==
    <<"cache", "logs", "backups", "downloads", "trash", "development", "system", "browser">>

\* C1: categorize_file returns at most one category, the one the rules give
\* when applied in order: the first pattern category in declared order with a
\* pattern the lowercased name ends with or the lowercased path contains, else
\* large_files above 100 MiB, else old_files when older than 30 days, else none.
C1_RuleOrder ==
    cfOut # Pending =>
        /\ cfOut \in CleanupCategories \cup {None}
        /\ \A i \in 1..8 :
               cfOut = DeclaredOrder[i] <=> (RuleHit(i) /\ \A h \in 1..(i - 1) : ~RuleHit(h))
        /\ cfOut = "large_files" <=>
               /\ \A i \in 1..8 : ~RuleHit(i)
               /\ cfIn.size > 100 * 1024 * 1024
        /\ cfOut = "old_files" <=>
               /\ \A i \in 1..8 : ~RuleHit(i)
               /\ ~(cfIn.size > 100 * 1024 * 1024)
               /\ cfIn.mtime # StatErr
               /\ Now - cfIn.mtime > 30 * 24 * 3600

C1_Witness ==
    /\ cfOut = "logs"
    /\ cfIn.name = N_XLOG
    /\ RuleHit(2)
    /\ RuleHit(6)

(***************************************************************************)
(* CleanupEngine.cleanup_files, one action per iteration of its for loop.  *)
(***************************************************************************)
\* os.path.isfile / os.path.isdir: both follow the entry and are False when
\* its stat fails or nothing is there
IsFile(fsys, n) == n \in fsys /\ Attr(n).kind = "file" /\ ~Attr(n).statFails
IsDir(fsys, n) == n \in fsys /\ Attr(n).kind = "dir"

\* os.remove, os.rmdir or os.scandir on n raises OSError
RemovalFails(n) == n \in locked \/ Attr(n).noEnter

\* shutil.rmtree(d): the order in which it removes, children before parents;
\* a directory that cannot be listed fails before any of its children
RECURSIVE RmtreeOrder(_, _)
RECURSIVE RmtreeChildren(_, _, _)
RmtreeChildren(fsys, kids, i) ==
    IF i > Len(kids) THEN << >>
    ELSE (IF Attr(kids[i]).kind = "dir" THEN RmtreeOrder(fsys, kids[i]) ELSE <<kids[i]>>)
         \o RmtreeChildren(fsys, kids, i + 1)
RmtreeOrder(fsys, d) ==
    IF Attr(d).noEnter THEN <<d>>
    ELSE RmtreeChildren(fsys, ListDir(fsys, d), 1) \o <<d>>

\* rmtree raises at the first removal that fails and stops there
RmtreeFails(fsys, d) ==
    \E k \in 1..Len(RmtreeOrder(fsys, d)) : RemovalFails(RmtreeOrder(fsys, d)[k])
\* rmtree let loose on the directory that holds d
RmtreeRemovedFromParent(fsys, d) == {n \in fsys : Inside(Parent(d), n)}

RmtreeRemoved(fsys, d) ==
    LET order == RmtreeOrder(fsys, d) IN
    {order[k] : k \in {k \in 1..Len(order) : \A h \in 1..k : ~RemovalFails(order[h])}}

\* the deletion without its guard
DeleteAlways(dry) == TRUE

\* if not self.dry_run:
ShouldDelete(dry) == ~dry

PathCandidates ==
    { <<N_alog>>, <<N_gone>>, <<N_dead>>, <<N_sub>>, <<N_sub, N_btmp>>, <<N_sub, N_deep>> }
LockCandidates == { <<N_alog>>, <<N_sub, N_btmp>>, <<N_sub, N_deep, N_d3, N_zlog>> }

RECURSIVE SeqsUpTo(_, _)
SeqsUpTo(S, n) ==
    IF n = 0 THEN {<< >>}
    ELSE SeqsUpTo(S, n - 1)
         \cup {Append(q, x) : q \in {r \in SeqsUpTo(S, n - 1) : Len(r) = n - 1}, x \in S}

InitCleanup ==
    /\ fs = AllNodes
    /\ locked \in SUBSET LockCandidates
    /\ paths \in SeqsUpTo(PathCandidates, MaxPaths)
    /\ dry_run \in BOOLEAN
    /\ verbose \in BOOLEAN
    /\ CleanIdle
    /\ rootStr = <<"/","r">>
    /\ max_depth = 0
    /\ show_progress = FALSE
    /\ ScanIdle
    /\ ClassIdle
    /\ MoreIdle

\* CleanupEngine.set_dry_run, between calls
set_dry_run(b) ==
    /\ clPc \in {"idle", "done"}
    /\ Len(calls) < MaxCalls
    /\ b # dry_run
    /\ dry_run' = b
    /\ UNCHANGED <<paths, verbose, clPc, idx, files_removed, bytes_freed, outcome, fs0, calls>>
    /\ UNCHANGED <<envVars, scanVars, classVars, moreVars>>

\* lines 337-338: a call begins
CleanupStart ==
    /\ clPc \in {"idle", "done"}
    /\ Len(calls) < MaxCalls
    /\ clPc' = "running"
    /\ idx' = 1
    /\ files_removed' = 0
    /\ bytes_freed' = 0
    /\ outcome' = << >>
    /\ fs0' = fs
    /\ UNCHANGED <<paths, dry_run, verbose, calls>>
    /\ UNCHANGED <<envVars, scanVars, classVars, moreVars>>

InLoop == clPc = "running" /\ idx <= Len(paths)

Handled(kind, failed, counted, sz) ==
    /\ outcome' = Append(outcome, [kind |-> kind, failed |-> failed,
                                   counted |-> counted, size |-> sz])
    /\ idx' = idx + 1
    /\ files_removed' = IF counted THEN files_removed + 1 ELSE files_removed
    /\ bytes_freed' = IF counted THEN bytes_freed + sz ELSE bytes_freed
    /\ UNCHANGED <<paths, dry_run, verbose, clPc, fs0, calls, locked>>
    /\ UNCHANGED <<scanVars, classVars, moreVars>>

\* lines 342-349 with os.remove raising: the except clause, nothing counted,
\* and the exception ending the loop instead of the iteration
CleanFileFailsAbort ==
    /\ InLoop
    /\ IsFile(fs, paths[idx])
    /\ ShouldDelete(dry_run)
    /\ RemovalFails(paths[idx])
    /\ fs' = fs
    /\ outcome' = Append(outcome, [kind |-> "file", failed |-> TRUE, counted |-> FALSE,
                                   size |-> Attr(paths[idx]).size])
    /\ idx' = Len(paths) + 1
    /\ UNCHANGED <<paths, dry_run, verbose, clPc, fs0, calls, locked,
                   files_removed, bytes_freed>>
    /\ UNCHANGED <<scanVars, classVars, moreVars>>

\* lines 350-357 with shutil.rmtree raising, and the directory counted all the same
CleanTreeFailsCounted ==
    /\ InLoop
    /\ IsDir(fs, paths[idx])
    /\ ShouldDelete(dry_run)
    /\ RmtreeFails(fs, paths[idx])
    /\ fs' = fs \ RmtreeRemoved(fs, paths[idx])
    /\ Handled("dir", TRUE, TRUE, get_directory_size(fs, paths[idx]))

\* lines 342-349: a file, sized, removed unless dry_run, counted
CleanFile ==
    /\ InLoop
    /\ IsFile(fs, paths[idx])
    /\ ShouldDelete(dry_run) => ~RemovalFails(paths[idx])
    /\ fs' = IF ShouldDelete(dry_run) THEN fs \ {paths[idx]} ELSE fs
    /\ Handled("file", FALSE, TRUE, Attr(paths[idx]).size)

\* lines 342-345 and 358-361: os.remove raises OSError, the path is skipped
CleanFileFails ==
    /\ InLoop
    /\ IsFile(fs, paths[idx])
    /\ ShouldDelete(dry_run)
    /\ RemovalFails(paths[idx])
    /\ fs' = fs
    /\ Handled("file", TRUE, FALSE, Attr(paths[idx]).size)

\* the directory test and the sizing done on the filesystem the call began with
CleanTreeOnSnapshot ==
    /\ InLoop
    /\ IsDir(fs0, paths[idx])
    /\ ShouldDelete(dry_run) => ~RmtreeFails(fs, paths[idx])
    /\ fs' = IF ShouldDelete(dry_run) THEN fs \ RmtreeRemoved(fs, paths[idx]) ELSE fs
    /\ Handled("dir", FALSE, TRUE, get_directory_size(fs0, paths[idx]))

\* lines 350-357: a directory, sized, removed with its contents unless dry_run
CleanTree ==
    /\ InLoop
    /\ IsDir(fs, paths[idx])
    /\ ShouldDelete(dry_run) => ~RmtreeFails(fs, paths[idx])
    /\ fs' = IF ShouldDelete(dry_run) THEN fs \ RmtreeRemoved(fs, paths[idx]) ELSE fs
    /\ Handled("dir", FALSE, TRUE, get_directory_size(fs, paths[idx]))

\* lines 350-353 and 358-361: shutil.rmtree raises OSError part-way
CleanTreeFails ==
    /\ InLoop
    /\ IsDir(fs, paths[idx])
    /\ ShouldDelete(dry_run)
    /\ RmtreeFails(fs, paths[idx])
    /\ fs' = fs \ RmtreeRemoved(fs, paths[idx])
    /\ Handled("dir", TRUE, FALSE, get_directory_size(fs, paths[idx]))

\* neither branch of the if: the path is passed over in silence
CleanSkip ==
    /\ InLoop
    /\ ~IsFile(fs, paths[idx])
    /\ ~IsDir(fs, paths[idx])
    /\ fs' = fs
    /\ Handled("neither", FALSE, FALSE, 0)

\* line 363: return files_removed, bytes_freed
CleanupReturn ==
    /\ clPc = "running"
    /\ idx > Len(paths)
    /\ clPc' = "done"
    /\ calls' = Append(calls, [dry |-> dry_run, verbose |-> verbose, paths |-> paths,
                               files_removed |-> files_removed,
                               bytes_freed |-> bytes_freed,
                               outcome |-> outcome, before |-> fs0, after |-> fs])
    /\ UNCHANGED <<paths, dry_run, verbose, idx, files_removed, bytes_freed, outcome, fs0>>
    /\ UNCHANGED <<envVars, scanVars, classVars, moreVars>>

NextCleanup ==
    \/ \E b \in BOOLEAN : set_dry_run(b)
    \/ CleanupStart
    \/ CleanFile
    \/ CleanFileFails
    \/ CleanTree
    \/ CleanTreeFails
    \/ CleanSkip
    \/ CleanupReturn

SpecCleanup == InitCleanup /\ [][NextCleanup]_vars

(***************************************************************************)
(* Properties of cleanup, read off the calls that have returned.           *)
(***************************************************************************)
Listed(c) == SeqToSet(c.paths)

\* the size cleanup measures for p on filesystem fsys: getsize of a file,
\* get_directory_size of a directory, nothing for anything else
PreSize(fsys, p) ==
    IF IsFile(fsys, p) THEN Attr(p).size
    ELSE IF IsDir(fsys, p) THEN get_directory_size(fsys, p)
    ELSE 0

RECURSIVE SumPreSize(_, _)
SumPreSize(fsys, S) ==
    IF S = {} THEN 0
    ELSE LET p == CHOOSE x \in S : TRUE IN PreSize(fsys, p) + SumPreSize(fsys, S \ {p})

\* no listed path lies inside a listed directory
NoNesting(q) == \A i \in 1..Len(q) : \A j \in 1..Len(q) : ~Inside(q[i], q[j])

StillExisting(c) == \A i \in 1..Len(c.paths) :
    c.paths[i] \in c.after => ~c.outcome[i].counted

\* C3 as stated: after a non-dry-run cleanup, for any path list and any
\* removal failures, bytes_freed is the sum of the pre-deletion sizes of the
\* listed paths that no longer exist, and no listed path that still exists
\* was counted.
C3_BytesEqualGoneSizes ==
    \A k \in 1..Len(calls) :
        ~calls[k].dry =>
            /\ calls[k].bytes_freed =
                   SumPreSize(calls[k].before, {p \in Listed(calls[k]) : p \notin calls[k].after})
            /\ StillExisting(calls[k])

\* C3 amended: the same, for path lists in which no listed path lies inside
\* a listed directory.
C3_BytesEqualGoneSizesNoNesting ==
    \A k \in 1..Len(calls) :
        (~calls[k].dry /\ NoNesting(calls[k].paths)) =>
            /\ calls[k].bytes_freed =
                   SumPreSize(calls[k].before, {p \in Listed(calls[k]) : p \notin calls[k].after})
            /\ StillExisting(calls[k])

C3_Witness ==
    \E k \in 1..Len(calls) :
        /\ ~calls[k].dry
        /\ NoNesting(calls[k].paths)
        /\ calls[k].bytes_freed > 0
        /\ \E i \in 1..Len(calls[k].paths) :
               calls[k].outcome[i].kind = "dir" /\ calls[k].outcome[i].counted
        /\ \E i \in 1..Len(calls[k].paths) : calls[k].outcome[i].failed

\* C4: a dry-run cleanup leaves the filesystem as it was, and two dry-run
\* calls in a row on the same path list return the same pair.
C4_DryRunIdempotent ==
    /\ (clPc = "running" /\ dry_run) => fs = fs0
    /\ \A k \in 1..Len(calls) :
           calls[k].dry =>
               /\ calls[k].after = calls[k].before
               /\ (k > 1 /\ calls[k - 1].dry /\ calls[k - 1].paths = calls[k].paths) =>
                      /\ calls[k].files_removed = calls[k - 1].files_removed
                      /\ calls[k].bytes_freed = calls[k - 1].bytes_freed

C4_Witness ==
    /\ Len(calls) = 2
    /\ calls[1].dry
    /\ calls[2].dry
    /\ calls[2].files_removed = 2
    /\ calls[2].bytes_freed > 0
    /\ \E i \in 1..Len(paths) : IsDir(fs, paths[i])

RECURSIVE CountedBytes(_, _)
CountedBytes(out, i) ==
    IF i > Len(out) THEN 0
    ELSE (IF out[i].counted THEN out[i].size ELSE 0) + CountedBytes(out, i + 1)

\* C5: a path that is neither file nor directory, or whose removal fails,
\* adds to neither counter and stops nothing: every listed path is handled
\* and every removable listed file is gone afterwards; a list of missing
\* paths returns (0, 0).
C5_BestEffort ==
    \A k \in 1..Len(calls) :
        LET c == calls[k] IN
        /\ Len(c.outcome) = Len(c.paths)
        /\ \A i \in 1..Len(c.paths) :
               (c.outcome[i].kind = "neither" \/ c.outcome[i].failed) => ~c.outcome[i].counted
        /\ c.files_removed = Cardinality({i \in 1..Len(c.paths) :
               c.outcome[i].kind # "neither" /\ ~c.outcome[i].failed})
        /\ c.bytes_freed = CountedBytes(c.outcome, 1)
        /\ ~c.dry => \A j \in 1..Len(c.paths) :
               (IsFile(c.before, c.paths[j]) /\ ~RemovalFails(c.paths[j]))
                   => c.paths[j] \notin c.after
        /\ (\A j \in 1..Len(c.paths) : c.paths[j] \notin c.before) =>
               (c.files_removed = 0 /\ c.bytes_freed = 0)

C5_Witness ==
    \E k \in 1..Len(calls) :
        /\ ~calls[k].dry
        /\ Len(calls[k].paths) = 2
        /\ calls[k].outcome[1].failed
        /\ calls[k].outcome[2].counted
        /\ calls[k].files_removed = 1

\* ---------------------------------------------------------------------------
\* The format classifier of the Downloads analysis (MacSweep.format_categories,
\* MacSweep.categorize_file_format).  The dictionary keeps its insertion order,
\* so it is a sequence; the extensions are the literals of the source.
\* ---------------------------------------------------------------------------
format_categories == <<
    [category |-> "documents", extensions |-> <<
        <<".","p","d","f">>, <<".","d","o","c">>, <<".","d","o","c","x">>, <<".","t","x","t">>,
        <<".","r","t","f">>, <<".","o","d","t">>, <<".","p","a","g","e","s">>, <<".","k","e","y">>,
        <<".","p","p","t">>, <<".","p","p","t","x">>, <<".","x","l","s">>, <<".","x","l","s","x">>
    >>],
    [category |-> "images", extensions |-> <<
        <<".","j","p","g">>, <<".","j","p","e","g">>, <<".","p","n","g">>, <<".","g","i","f">>,
        <<".","b","m","p">>, <<".","t","i","f","f">>, <<".","s","v","g">>, <<".","w","e","b","p">>,
        <<".","h","e","i","c">>, <<".","r","a","w">>, <<".","c","r","2">>, <<".","n","e","f">>
    >>],
    [category |-> "videos", extensions |-> <<
        <<".","m","p","4">>, <<".","a","v","i">>, <<".","m","o","v">>, <<".","w","m","v">>,
        <<".","f","l","v">>, <<".","w","e","b","m">>, <<".","m","k","v">>, <<".","m","4","v">>,
        <<".","3","g","p">>, <<".","m","p","g">>, <<".","m","p","e","g">>
    >>],
    [category |-> "audio", extensions |-> <<
        <<".","m","p","3">>, <<".","w","a","v">>, <<".","f","l","a","c">>, <<".","a","a","c">>,
        <<".","o","g","g">>, <<".","m","4","a">>, <<".","w","m","a">>, <<".","a","i","f","f">>,
        <<".","a","l","a","c">>
    >>],
    [category |-> "archives", extensions |-> <<
        <<".","z","i","p">>, <<".","r","a","r">>, <<".","7","z">>, <<".","t","a","r">>,
        <<".","g","z">>, <<".","b","z","2">>, <<".","x","z">>, <<".","d","m","g">>,
        <<".","i","s","o">>
    >>],
    [category |-> "executables", extensions |-> <<
        <<".","e","x","e">>, <<".","a","p","p">>, <<".","d","m","g">>, <<".","p","k","g">>,
        <<".","d","e","b">>, <<".","r","p","m">>, <<".","m","s","i">>, <<".","b","a","t">>,
        <<".","s","h">>
    >>],
    [category |-> "code", extensions |-> <<
        <<".","p","y">>, <<".","j","s">>, <<".","h","t","m","l">>, <<".","c","s","s">>,
        <<".","j","a","v","a">>, <<".","c","p","p">>, <<".","c">>, <<".","p","h","p">>,
        <<".","r","b">>, <<".","g","o">>, <<".","r","s">>, <<".","s","w","i","f","t">>
    >>],
    [category |-> "data", extensions |-> <<
        <<".","j","s","o","n">>, <<".","x","m","l">>, <<".","c","s","v">>, <<".","s","q","l">>,
        <<".","d","b">>, <<".","s","q","l","i","t","e">>, <<".","y","a","m","l">>, <<".","y","m","l">>,
        <<".","t","o","m","l">>, <<".","i","n","i">>, <<".","c","o","n","f">>
    >>],
    [category |-> "fonts", extensions |-> <<
        <<".","t","t","f">>, <<".","o","t","f">>, <<".","w","o","f","f">>, <<".","w","o","f","f","2">>,
        <<".","e","o","t">>
    >>],
    [category |-> "other", extensions |-> <<
    >>]
>>

FormatCategoryNames == {format_categories[i].category : i \in 1..Len(format_categories)}

\* for category, extensions in self.format_categories.items():
\*     if extension in extensions: return category
FormatLoop(extension, i) ==
    LET RECURSIVE Go(_)
        Go(k) ==
            IF k > Len(format_categories) THEN None
            ELSE IF extension \in SeqToSet(format_categories[k].extensions)
                 THEN format_categories[k].category
                 ELSE Go(k + 1)
    IN Go(i)

\* What mimetypes.guess_type(file_path) does to the caller: it raises, or it
\* returns a type; None is the empty text, which `if mime_type:` treats alike.
MimeGuess(raises, mime_type) == [raises |-> raises, mime_type |-> mime_type]
NoGuess == MimeGuess(FALSE, << >>)

M_image == <<"i","m","a","g","e","/">>
M_video == <<"v","i","d","e","o","/">>
M_audio == <<"a","u","d","i","o","/">>
M_text == <<"t","e","x","t","/">>
M_application == <<"a","p","p","l","i","c","a","t","i","o","n","/">>
M_pdf == <<"p","d","f">>
M_zip == <<"z","i","p">>
M_rar == <<"r","a","r">>
M_7z == <<"7","z">>

MimeBranchNoFallback(mime) ==
    IF mime.raises \/ mime.mime_type = << >> THEN None
    ELSE IF StartsWith(mime.mime_type, M_image) THEN "images"
    ELSE IF StartsWith(mime.mime_type, M_video) THEN "videos"
    ELSE IF StartsWith(mime.mime_type, M_audio) THEN "audio"
    ELSE IF StartsWith(mime.mime_type, M_text) THEN "documents"
    ELSE IF StartsWith(mime.mime_type, M_application)
         THEN IF Contains(mime.mime_type, M_pdf) THEN "documents"
              ELSE IF \/ Contains(mime.mime_type, M_zip)
                      \/ Contains(mime.mime_type, M_rar)
                      \/ Contains(mime.mime_type, M_7z) THEN "archives"
              ELSE None
    ELSE None

\* The body of `if not extension:`; an exception, a None and a type no branch
\* takes all fall through to the final `return 'other'`.
MimeBranch(mime) ==
    IF mime.raises \/ mime.mime_type = << >> THEN "other"
    ELSE IF StartsWith(mime.mime_type, M_image) THEN "images"
    ELSE IF StartsWith(mime.mime_type, M_video) THEN "videos"
    ELSE IF StartsWith(mime.mime_type, M_audio) THEN "audio"
    ELSE IF StartsWith(mime.mime_type, M_text) THEN "documents"
    ELSE IF StartsWith(mime.mime_type, M_application)
         THEN IF Contains(mime.mime_type, M_pdf) THEN "documents"
              ELSE IF \/ Contains(mime.mime_type, M_zip)
                      \/ Contains(mime.mime_type, M_rar)
                      \/ Contains(mime.mime_type, M_7z) THEN "archives"
              ELSE "other"
    ELSE "other"

categorize_file_format(extension, mime) ==
    IF FormatLoop(extension, 1) # None THEN FormatLoop(extension, 1)
    ELSE IF extension = << >> THEN MimeBranch(mime)
    ELSE "other"

\* The extensions the classifier is applied to: every listed one, and some that
\* no list holds (an upper-case one, a bare dot, a listed one without its dot).
ListedExtensions == UNION {SeqToSet(format_categories[i].extensions) : i \in 1..Len(format_categories)}
UnlistedExtensions == {<< >>, <<".","x","y","z">>, <<".","P","D","F">>, <<".">>, <<"p","d","f">>, <<".","p","d","f","x">>, <<".","d">>}
FormatExtensions == ListedExtensions \cup UnlistedExtensions

MimeTypes == {<< >>, <<"i","m","a","g","e","/","p","n","g">>, <<"v","i","d","e","o","/","m","p","4">>, <<"a","u","d","i","o","/","m","p","e","g">>, <<"t","e","x","t","/","p","l","a","i","n">>,
              <<"a","p","p","l","i","c","a","t","i","o","n","/","p","d","f">>, <<"a","p","p","l","i","c","a","t","i","o","n","/","z","i","p">>, <<"a","p","p","l","i","c","a","t","i","o","n","/","x","-","r","a","r">>,
              <<"a","p","p","l","i","c","a","t","i","o","n","/","x","-","7","z","-","c","o","m","p","r","e","s","s","e","d">>, <<"a","p","p","l","i","c","a","t","i","o","n","/","j","s","o","n">>, <<"c","h","e","m","i","c","a","l","/","x","-","p","d","b">>}
MimeGuesses == {MimeGuess(FALSE, t) : t \in MimeTypes} \cup {MimeGuess(TRUE, << >>)}

InitFormatFn ==
    /\ fs = {} /\ locked = {}
    /\ ScanArgsIdle /\ ScanIdle
    /\ CleanArgsIdle /\ CleanIdle
    /\ ClassIdle
    /\ FormatIdle /\ QuickIdle /\ FlowIdle
    /\ cdOut = Pending
    /\ sizeIn = << >> /\ sizeOut = NoTotal
    /\ ffIn \in [extension : FormatExtensions, mime : MimeGuesses]
    /\ ffOut = Pending

CategorizeFormat ==
    /\ ffOut = Pending
    /\ ffOut' = categorize_file_format(ffIn.extension, ffIn.mime)
    /\ UNCHANGED <<ffIn, cdOut, sizeIn, sizeOut>>
    /\ UNCHANGED <<envVars, scanVars, cleanVars, classVars, fmtVars, quickVars, flowVars>>

NextFormatFn == CategorizeFormat
SpecFormatFn == InitFormatFn /\ [][NextFormatFn]_vars

\* The MIME types one of the branches of the probe maps to a category other
\* than by falling through.
MimeConclusive(mime) ==
    /\ ~mime.raises
    /\ \/ \E p \in {M_image, M_video, M_audio, M_text} : StartsWith(mime.mime_type, p)
       \/ /\ StartsWith(mime.mime_type, M_application)
          /\ \E p \in {M_pdf, M_zip, M_rar, M_7z} : Contains(mime.mime_type, p)

\* C11: categorize_file_format is total: whatever the extension and whatever
\* the MIME probe does, the value returned is one of the ten format categories;
\* a non-empty extension that no list holds gives `other`, and so does an empty
\* extension whose probe raises, gives nothing, or gives a type no branch maps.
C11_FormatTotal ==
    ffOut # Pending =>
        /\ Cardinality(FormatCategoryNames) = 10
        /\ ffOut \in FormatCategoryNames
        /\ (ffIn.extension # << >> /\ ffIn.extension \notin ListedExtensions)
               => ffOut = "other"
        /\ (ffIn.extension = << >> /\ ~MimeConclusive(ffIn.mime))
               => ffOut = "other"

C11_Witness ==
    /\ ffOut = "other"
    /\ ffIn.extension = << >>
    /\ ffIn.mime = MimeGuess(FALSE, <<"c","h","e","m","i","c","a","l","/","x","-","p","d","b">>)

(***************************************************************************)
(* FileScanner.analyze_downloads_formats: os.walk over the whole folder    *)
(* (no depth limit, no directory filter), one file per step.  The result   *)
(* is a dict of dicts; both keep insertion order, so both are sequences.   *)
(* The progress bar only prints and is left out.                           *)
(***************************************************************************)
\* p.rfind('.'), 0 when there is none
LastDot(p) ==
    IF \E i \in 1..Len(p) : p[i] = "."
    THEN CHOOSE i \in 1..Len(p) : p[i] = "." /\ \A j \in (i + 1)..Len(p) : p[j] # "."
    ELSE 0

\* os.path.splitext on a name: the extension starts at the last dot, unless
\* only dots come before it
splitext(p) ==
    LET d == LastDot(p) IN
    IF d > 0 /\ \E k \in 1..(d - 1) : p[k] # "."
    THEN <<SubSeq(p, 1, d - 1), SubSeq(p, d, Len(p))>>
    ELSE <<p, << >> >>

\* mimetypes.guess_type: a table keyed by the extension of the path; a path
\* without extension gives None
TypesMap == <<
    [ext |-> <<".","p","n","g">>, type |-> <<"i","m","a","g","e","/","p","n","g">>],
    [ext |-> <<".","p","d","f">>, type |-> <<"a","p","p","l","i","c","a","t","i","o","n","/","p","d","f">>],
    [ext |-> <<".","t","x","t">>, type |-> <<"t","e","x","t","/","p","l","a","i","n">>],
    [ext |-> <<".","z","i","p">>, type |-> <<"a","p","p","l","i","c","a","t","i","o","n","/","z","i","p">>] >>

guess_type(name) ==
    LET ext == Lower(splitext(name)[2]) IN
    IF \E i \in 1..Len(TypesMap) : TypesMap[i].ext = ext
    THEN MimeGuess(FALSE, TypesMap[CHOOSE i \in 1..Len(TypesMap) : TypesMap[i].ext = ext].type)
    ELSE NoGuess

\* the extension taken without lowering the name
FormatKeyNoLower(file) == splitext(file)[2]

\* _, ext = os.path.splitext(file.lower())
FormatKey(file) == splitext(Lower(file))[2]

\* format_analysis[category][ext].append(e), on the inner dict
ExtAdd(exts, ext, e) ==
    IF \E j \in 1..Len(exts) : exts[j].ext = ext
    THEN [j \in 1..Len(exts) |->
             IF exts[j].ext = ext THEN [exts[j] EXCEPT !.files = Append(@, e)] ELSE exts[j]]
    ELSE Append(exts, [ext |-> ext, files |-> <<e>>])

\* format_analysis[category][ext].append(e)
FormatAdd(fa, category, ext, e) ==
    IF \E i \in 1..Len(fa) : fa[i].category = category
    THEN [i \in 1..Len(fa) |->
             IF fa[i].category = category
             THEN [fa[i] EXCEPT !.exts = ExtAdd(@, ext, e)] ELSE fa[i]]
    ELSE Append(fa, [category |-> category, exts |-> ExtAdd(<< >>, ext, e)])

\* the files os.walk(downloads_path) hands to the loop, in order
RECURSIVE FormatWalk(_, _)
FormatWalk(fsys, stack) ==
    IF stack = << >> THEN << >>
    ELSE LET d == Head(stack) IN
         IF Attr(d).noEnter THEN FormatWalk(fsys, Tail(stack))
         ELSE ListFiles(fsys, d) \o FormatWalk(fsys, ListDirs(fsys, d) \o Tail(stack))

DownloadsNode == <<N_Downloads>>
DownloadsNodes == {HomeUniverse[i].node : i \in 1..Len(HomeUniverse)}

\* the Downloads folders an analysis may run on; the folder may be missing
FormatPrunable == { <<N_Downloads>>, <<N_Downloads, N_reportPDF>>, <<N_Downloads, N_photojpeg>>,
                    <<N_Downloads, N_dotPDF>>, <<N_Downloads, N_old>> }
FormatTrees ==
    { {n \in AllNodes \cup DownloadsNodes : \A d \in omit : ~IsPrefix(d, n)} :
        omit \in SUBSET FormatPrunable }

InitFormat ==
    /\ fs \in FormatTrees
    /\ locked = {}
    /\ ScanArgsIdle /\ ScanIdle
    /\ CleanArgsIdle /\ CleanIdle
    /\ ClassIdle
    /\ PureIdle /\ FormatIdle /\ QuickIdle /\ FlowIdle

\* if not os.path.exists(downloads_path): return {}
AnalyzeMissing ==
    /\ fmtPc = "idle"
    /\ DownloadsNode \notin fs
    /\ fmtPc' = "analyzed"
    /\ UNCHANGED <<fmtQueue, format_analysis, selected_formats, fmtChoice, collected_files>>
    /\ UNCHANGED <<envVars, scanVars, cleanVars, classVars, pureVars, quickVars, flowVars>>

AnalyzeStart ==
    /\ fmtPc = "idle"
    /\ DownloadsNode \in fs
    /\ fmtPc' = "walking"
    /\ fmtQueue' = FormatWalk(fs, <<DownloadsNode>>)
    /\ UNCHANGED <<format_analysis, selected_formats, fmtChoice, collected_files>>
    /\ UNCHANGED <<envVars, scanVars, cleanVars, classVars, pureVars, quickVars, flowVars>>

\* the body of `for file in files`
AnalyzeFile ==
    /\ fmtPc = "walking"
    /\ fmtQueue # << >>
    /\ LET n == Head(fmtQueue)
           ext == FormatKey(Name(n))
           category == categorize_file_format(ext, guess_type(Name(n)))
       IN format_analysis' =
              IF Attr(n).statFails THEN format_analysis
              ELSE FormatAdd(format_analysis, category, ext, Entry(HomeStr, n, Attr(n).size))
    /\ fmtQueue' = Tail(fmtQueue)
    /\ UNCHANGED <<fmtPc, selected_formats, fmtChoice, collected_files>>
    /\ UNCHANGED <<envVars, scanVars, cleanVars, classVars, pureVars, quickVars, flowVars>>

AnalyzeFinish ==
    /\ fmtPc = "walking"
    /\ fmtQueue = << >>
    /\ fmtPc' = "analyzed"
    /\ UNCHANGED <<fmtQueue, format_analysis, selected_formats, fmtChoice, collected_files>>
    /\ UNCHANGED <<envVars, scanVars, cleanVars, classVars, pureVars, quickVars, flowVars>>

\* every (category, extension key, entry) the analysis holds
Stored(fa) ==
    UNION { UNION { { [category |-> fa[i].category, ext |-> fa[i].exts[j].ext,
                       e |-> fa[i].exts[j].files[k]] :
                         k \in 1..Len(fa[i].exts[j].files) } :
                    j \in 1..Len(fa[i].exts) } :
            i \in 1..Len(fa) }

(***************************************************************************)
(* TerminalUI.display_downloads_formats and select_downloads_formats: the  *)
(* totals, the two sorts and the numbered selection.                       *)
(***************************************************************************)
\* sum(size for _, size, _ in files)
RECURSIVE SumEntries(_, _)
SumEntries(files, i) ==
    IF i > Len(files) THEN 0 ELSE files[i].size + SumEntries(files, i + 1)

\* the running totals of the loop over extensions.items()
RECURSIVE CategorySize(_, _)
CategorySize(exts, j) ==
    IF j > Len(exts) THEN 0 ELSE SumEntries(exts[j].files, 1) + CategorySize(exts, j + 1)
RECURSIVE CategoryFiles(_, _)
CategoryFiles(exts, j) ==
    IF j > Len(exts) THEN 0 ELSE Len(exts[j].files) + CategoryFiles(exts, j + 1)

\* x put before the first element at least as large: ascending order
InsertAsc(sorted, x) ==
    LET k == Cardinality({i \in 1..Len(sorted) : sorted[i].size < x.size}) IN
    SubSeq(sorted, 1, k) \o <<x>> \o SubSeq(sorted, k + 1, Len(sorted))

\* sorted(..., key=size, reverse=True) is stable: x goes behind every element
\* that is at least as large
InsertDesc(sorted, x) ==
    LET k == Cardinality({i \in 1..Len(sorted) : sorted[i].size >= x.size}) IN
    SubSeq(sorted, 1, k) \o <<x>> \o SubSeq(sorted, k + 1, Len(sorted))

RECURSIVE SortDesc(_, _)
SortDesc(q, i) == IF i = 0 THEN << >> ELSE InsertDesc(SortDesc(q, i - 1), q[i])

\* category_sizes / category_totals: one (category, size, files) per category,
\* in the order of format_analysis; a category without files is left out
category_totals(fa) ==
    SelectSeq([i \in 1..Len(fa) |->
                  [category |-> fa[i].category,
                   size |-> CategorySize(fa[i].exts, 1),
                   files |-> CategoryFiles(fa[i].exts, 1)]],
              LAMBDA t : t.files # 0)

sorted_categories(fa) == SortDesc(category_totals(fa), Len(category_totals(fa)))

\* sorted_extensions of one category in display_downloads_formats
sorted_extensions(exts) ==
    SortDesc([j \in 1..Len(exts) |->
                 [ext |-> exts[j].ext, size |-> SumEntries(exts[j].files, 1),
                  files |-> Len(exts[j].files)]],
             Len(exts))

\* what display_downloads_formats prints: the categories in order, each with
\* its totals and its extensions in order
Displayed(fa) ==
    [i \in 1..Len(sorted_categories(fa)) |->
        LET t == sorted_categories(fa)[i]
            k == CHOOSE k \in 1..Len(fa) : fa[k].category = t.category
        IN  [category |-> t.category, total_bytes |-> t.size, file_count |-> t.files,
             extensions |-> sorted_extensions(fa[k].exts)]]

\* all_extensions of select_specific_formats, sorted by size
RECURSIVE AllExtensions(_, _)
AllExtensions(fa, i) ==
    IF i > Len(fa) THEN << >>
    ELSE [j \in 1..Len(fa[i].exts) |->
             [ext |-> fa[i].exts[j].ext, size |-> SumEntries(fa[i].exts[j].files, 1),
              files |-> Len(fa[i].exts[j].files), category |-> fa[i].category]]
         \o AllExtensions(fa, i + 1)
all_extensions(fa) == SortDesc(AllExtensions(fa, 1), Len(AllExtensions(fa, 1)))

\* a category name as the text the functions return and compare
CategoryText == [c \in FormatCategoryNames |->
    CASE c = "documents" -> <<"d","o","c","u","m","e","n","t","s">>
      [] c = "images" -> <<"i","m","a","g","e","s">>
      [] c = "videos" -> <<"v","i","d","e","o","s">>
      [] c = "audio" -> <<"a","u","d","i","o">>
      [] c = "archives" -> <<"a","r","c","h","i","v","e","s">>
      [] c = "executables" -> <<"e","x","e","c","u","t","a","b","l","e","s">>
      [] c = "code" -> <<"c","o","d","e">>
      [] c = "data" -> <<"d","a","t","a">>
      [] c = "fonts" -> <<"f","o","n","t","s">>
      [] OTHER -> <<"o","t","h","e","r">>]

Selected(kind, numbers, formats) ==
    /\ fmtPc = "analyzed"
    /\ fmtPc' = "selected"
    /\ fmtChoice' = [kind |-> kind, numbers |-> numbers]
    /\ selected_formats' = formats
    /\ UNCHANGED <<fmtQueue, format_analysis, collected_files>>
    /\ UNCHANGED <<envVars, scanVars, cleanVars, classVars, pureVars, quickVars, flowVars>>

\* nothing to select from, or 'none', 'quit', 'q', Ctrl-C, end of input, at
\* either prompt
SelectQuit ==
    /\ fmtChoice.kind = "unasked"
    /\ Selected("quit", << >>, << >>)

\* 'all'
SelectAll ==
    /\ format_analysis # << >>
    /\ Selected("all", << >>,
                [i \in 1..Len(sorted_categories(format_analysis)) |->
                    CategoryText[sorted_categories(format_analysis)[i].category]])

\* numbers separated by commas: idx = int(part) - 1, sorted_categories[idx][0]
SelectNumbers ==
    /\ format_analysis # << >>
    /\ \E q \in SeqsUpTo(1..Len(sorted_categories(format_analysis)), MaxPicks) :
        /\ q # << >>
        /\ Selected("numbers", q,
                    [i \in 1..Len(q) |->
                        CategoryText[sorted_categories(format_analysis)[q[i]].category]])

\* 'formats', then 'all'
SelectExtAll ==
    /\ format_analysis # << >>
    /\ Selected("formats all", << >>,
                [i \in 1..Len(all_extensions(format_analysis)) |->
                    all_extensions(format_analysis)[i].ext])

\* 'formats', then 'category:name' for a category that has extensions
SelectExtCategory ==
    /\ format_analysis # << >>
    /\ \E c \in FormatCategoryNames :
        LET hits == SelectSeq(all_extensions(format_analysis), LAMBDA x : x.category = c) IN
        /\ hits # << >>
        /\ Selected("formats category", << >>, [i \in 1..Len(hits) |-> hits[i].ext])

\* 'formats', then numbers separated by commas
SelectExtNumbers ==
    /\ format_analysis # << >>
    /\ \E q \in SeqsUpTo(1..Len(all_extensions(format_analysis)), MaxPicks) :
        /\ q # << >>
        /\ Selected("formats numbers", q,
                    [i \in 1..Len(q) |-> all_extensions(format_analysis)[q[i]].ext])

(***************************************************************************)
(* FileScanner.collect_files_by_formats, as a function of the analysis and *)
(* of the list of selected names, and its call in main.                    *)
(***************************************************************************)
\* the files of one extension added once for its own name and once more for
\* the name of its category
CollectExtTwice(files, ext, category, selected) ==
    (IF ext \in SeqToSet(selected) THEN files ELSE << >>)
    \o (IF CategoryText[category] \in SeqToSet(selected) THEN files ELSE << >>)

\* if ext in selected_formats or category in selected_formats:
\*     collected_files.extend(files)
CollectExt(files, ext, category, selected) ==
    IF ext \in SeqToSet(selected) \/ CategoryText[category] \in SeqToSet(selected)
    THEN files ELSE << >>

\* for ext, files in extensions.items()
RECURSIVE CollectCategory(_, _, _, _)
CollectCategory(exts, category, selected, j) ==
    IF j > Len(exts) THEN << >>
    ELSE CollectExt(exts[j].files, exts[j].ext, category, selected)
         \o CollectCategory(exts, category, selected, j + 1)

\* for category, extensions in format_analysis.items()
RECURSIVE CollectLoop(_, _, _)
CollectLoop(fa, selected, i) ==
    IF i > Len(fa) THEN << >>
    ELSE CollectCategory(fa[i].exts, fa[i].category, selected, 1)
         \o CollectLoop(fa, selected, i + 1)

collect_files_by_formats(fa, selected) == CollectLoop(fa, selected, 1)

\* analyze_downloads_formats from its first line to its return
RECURSIVE AnalyzeLoop(_, _)
AnalyzeLoop(q, i) ==
    IF i = 0 THEN << >>
    ELSE LET n == q[i]
             ext == FormatKey(Name(n))
             category == categorize_file_format(ext, guess_type(Name(n)))
         IN  IF Attr(n).statFails THEN AnalyzeLoop(q, i - 1)
             ELSE FormatAdd(AnalyzeLoop(q, i - 1), category, ext,
                            Entry(HomeStr, n, Attr(n).size))
analyze_downloads_formats(fsys) ==
    IF DownloadsNode \notin fsys THEN << >>
    ELSE AnalyzeLoop(FormatWalk(fsys, <<DownloadsNode>>),
                     Len(FormatWalk(fsys, <<DownloadsNode>>)))

\* the names a caller may put in the list: categories and extension keys,
\* with and without files in the analysis
SelectCandidates ==
    { CategoryText["documents"], CategoryText["images"], CategoryText["other"],
      <<".","p","d","f">>, <<".","j","p","e","g">>, << >>, <<".","z","i","p">> }

InitCollect ==
    /\ fs \in FormatTrees
    /\ locked = {}
    /\ ScanArgsIdle /\ ScanIdle
    /\ CleanArgsIdle /\ CleanIdle
    /\ ClassIdle
    /\ PureIdle /\ QuickIdle /\ FlowIdle
    /\ fmtPc = "selected"
    /\ fmtQueue = << >>
    /\ format_analysis = analyze_downloads_formats(fs)
    /\ selected_formats \in SeqsUpTo(SelectCandidates, MaxPicks)
    /\ fmtChoice = [kind |-> "given", numbers |-> << >>]
    /\ collected_files = << >>

\* the call and its return
Collect ==
    /\ fmtPc = "selected"
    /\ fmtPc' = "collected"
    /\ collected_files' = collect_files_by_formats(format_analysis, selected_formats)
    /\ UNCHANGED <<fmtQueue, format_analysis, selected_formats, fmtChoice>>
    /\ UNCHANGED <<envVars, scanVars, cleanVars, classVars, pureVars, quickVars, flowVars>>

\* main, lines 816-821: the call is made for a selection that is not empty
MainCollect ==
    /\ selected_formats # << >>
    /\ Collect

NextFormat ==
    \/ AnalyzeMissing
    \/ AnalyzeStart
    \/ AnalyzeFile
    \/ AnalyzeFinish
    \/ SelectQuit
    \/ SelectAll
    \/ SelectNumbers
    \/ SelectExtAll
    \/ SelectExtCategory
    \/ SelectExtNumbers
    \/ MainCollect
SpecFormat == InitFormat /\ [][NextFormat]_vars

\* s is the suffix of name that starts at its last dot, or empty when the name
\* has no dot after its first character that is not a dot
IsSuffixOf(s, name) ==
    \/ /\ s = << >>
       /\ \A d \in 1..Len(name) : name[d] = "." => \A k \in 1..(d - 1) : name[k] = "."
    \/ /\ s # << >>
       /\ s[1] = "."
       /\ \A k \in 2..Len(s) : s[k] # "."
       /\ Len(s) < Len(name)
       /\ EndsWith(name, s)
       /\ \E k \in 1..(Len(name) - Len(s)) : name[k] # "."

FindStored(fa, n) == {t \in Stored(fa) : t.e.node = n}

SizeTargets == { << >>, <<N_sub>>, <<N_sub, N_deep>>, <<N_sub, N_deep, N_d3>>, <<N_priv>>,
                 <<N_git>>, <<N_nm>>, <<N_alog>>, <<N_dead>>, <<N_Downloads>> }
SizeTrees == Trees \cup { t \cup DownloadsNodes : t \in Trees }

InitSize ==
    /\ fs \in SizeTrees
    /\ locked = {}
    /\ ScanArgsIdle /\ ScanIdle
    /\ CleanArgsIdle /\ CleanIdle
    /\ ClassIdle
    /\ FormatIdle /\ QuickIdle /\ FlowIdle
    /\ cdOut = Pending
    /\ ffIn = [extension |-> << >>, mime |-> NoGuess]
    /\ ffOut = Pending
    /\ sizeIn \in SizeTargets
    /\ sizeOut = NoTotal

DirectorySize ==
    /\ sizeOut = NoTotal
    /\ sizeOut' = get_directory_size(fs, sizeIn)
    /\ UNCHANGED <<sizeIn, cdOut, ffIn, ffOut>>
    /\ UNCHANGED <<envVars, scanVars, cleanVars, classVars, fmtVars, quickVars, flowVars>>

NextSize == DirectorySize
SpecSize == InitSize /\ [][NextSize]_vars

\* the files below d that a walk from d gets to and can read the size of:
\* every directory from d down to the file can be listed, and stat succeeds
Readable(fsys, d) ==
    { n \in fsys :
        /\ Inside(d, n)
        /\ Attr(n).kind = "file"
        /\ ~Attr(n).statFails
        /\ \A k \in Len(d)..(Len(n) - 1) :
               LET a == SubSeq(n, 1, k) IN
               a \in fsys /\ Attr(a).kind = "dir" /\ ~Attr(a).noEnter }

RECURSIVE SumOfSizes(_)
SumOfSizes(S) ==
    IF S = {} THEN 0
    ELSE LET n == CHOOSE x \in S : TRUE IN Attr(n).size + SumOfSizes(S \ {n})

\* C13: get_directory_size always returns a number: the sum of the sizes of
\* exactly the files below the path that the walk reaches and whose size can
\* be read; a file whose stat fails adds nothing, a directory that cannot be
\* listed loses its subtree only, and a path that cannot be walked gives 0.
C13_DirectorySize ==
    sizeOut # NoTotal =>
        /\ sizeOut >= 0
        /\ sizeOut = SumOfSizes(Readable(fs, sizeIn))
        /\ (sizeIn \notin fs \/ Attr(sizeIn).kind # "dir" \/ Attr(sizeIn).noEnter) => sizeOut = 0

C13_Witness ==
    /\ sizeIn = << >>
    /\ {<<N_dead>>, <<N_priv, N_plog>>, <<N_sub, N_deep, N_d3, N_zlog>>} \subseteq fs
    /\ sizeOut # NoTotal
    /\ sizeOut > Attr(<<N_sub, N_big>>).size

(***************************************************************************)
(* Per-entry failures during a scan                                        *)
(***************************************************************************)
\* the loops of the scan run for directory d: it can be listed, it lies above
\* the depth cutoff, and so does every directory on the way down to it, each
\* of which also passed the directory filter
ScanReaches(d) ==
    /\ d \in fs
    /\ Attr(d).kind = "dir"
    /\ \A k \in 0..Len(d) :
           LET a == SubSeq(d, 1, k) IN
           /\ ~Attr(a).noEnter
           /\ current_depth(PathOf(rootStr, a), rootStr) < max_depth
           /\ k > 0 => KeepDir(a)

FileCategory(n) == categorize_file(PathOf(rootStr, n), Name(n), Attr(n).size, Attr(n).mtime, Now)

\* C14: no failure on one entry ends the scan.  When the scan is done, the
\* file loop has run for every file of every directory the scan reaches
\* (listable, above the depth cutoff, kept by the filter), every such file whose stat works
\* and that has a category is an entry of that category, whether it comes
\* before or after a file whose stat fails, and a directory that cannot be
\* listed takes nothing but its own subtree out of the scan.
C14_NoAbort ==
    scanPc = "done" =>
        \A n \in fs :
            (Attr(n).kind = "file" /\ ScanReaches(Parent(n))) =>
                /\ n \in visited
                /\ Attr(n).statFails => n \notin EntryNodes
                /\ (~Attr(n).statFails /\ FileCategory(n) # None) =>
                       \E i \in 1..Len(results[FileCategory(n)]) :
                           results[FileCategory(n)][i].node = n

C14_Witness ==
    /\ scanPc = "done"
    /\ <<N_dead>> \in visited
    /\ <<N_alog>> \in EntryNodes
    /\ <<N_priv>> \in evaluated
    /\ <<N_priv, N_plog>> \notin visited
    /\ <<N_sub, N_btmp>> \in EntryNodes
    /\ <<N_sub, N_deep, N_olddat>> \in EntryNodes

(***************************************************************************)
(* The quick scan of main: scan_directory on each of five fixed folders    *)
(* that exists, the results merged per category.  One step per folder; a   *)
(* whole scan_directory call is the function below, the same loops as the  *)
(* steps of the scan above.                                                *)
(***************************************************************************)
RECURSIVE ScanWalk(_, _, _, _, _, _)
ScanWalk(res, fsys, top, path, maxd, stack) ==
    IF stack = << >> THEN res
    ELSE LET d == Head(stack)
             dirs == FilterDirs(ListDirs(fsys, d))
         IN  IF Attr(d).noEnter \/ current_depth(PathOf(top, d), path) >= maxd
             THEN ScanWalk(res, fsys, top, path, maxd, Tail(stack))
             ELSE ScanWalk(DirLoopBody(FileLoopBody(res, top, ListFiles(fsys, d), 1),
                                       fsys, top, dirs, 1),
                           fsys, top, path, maxd, dirs \o Tail(stack))

\* scanner.scan_directory(path, depth) where path names directory d below top
scan_directory(fsys, top, d, maxd) ==
    ScanWalk(EmptyResults, fsys, top, PathOf(top, d), maxd, <<d>>)

common_paths == << <<N_Library, N_Caches>>, <<N_Library, N_Logs>>, <<N_Downloads>>,
                   <<N_dcache>>, <<N_dtmp>> >>

\* scan_results[category] = files
MergeOverwrite(sr, res) ==
    [c \in CleanupCategories |-> IF res[c] # << >> THEN res[c] ELSE sr[c]]

\* for category, files in results.items(): scan_results[category].extend(files)
Merge(sr, res) == [c \in CleanupCategories |-> sr[c] \o res[c]]

QuickNodes == {QuickUniverse[i].node : i \in 1..Len(QuickUniverse)}
QuickTrees ==
    { {n \in AllNodes \cup DownloadsNodes \cup QuickNodes : \A d \in omit : ~IsPrefix(d, n)} :
        omit \in SUBSET SeqToSet(common_paths) }

InitQuick ==
    /\ fs \in QuickTrees
    /\ locked = {}
    /\ rootStr = HomeStr
    /\ max_depth \in 0..MaxDepthBound
    /\ show_progress = FALSE
    /\ ScanIdle
    /\ CleanArgsIdle /\ CleanIdle
    /\ ClassIdle
    /\ PureIdle /\ FormatIdle /\ QuickIdle /\ FlowIdle

\* if os.path.exists(path): scan it and extend scan_results
QuickScanRoot ==
    /\ quickIdx <= Len(common_paths)
    /\ common_paths[quickIdx] \in fs
    /\ LET res == scan_directory(fs, HomeStr, common_paths[quickIdx], max_depth) IN
        /\ scan_results' = Merge(scan_results, res)
        /\ perRoot' = Append(perRoot, res)
    /\ quickIdx' = quickIdx + 1
    /\ UNCHANGED <<envVars, scanVars, cleanVars, classVars, pureVars, fmtVars, flowVars>>

\* the folder does not exist: next one
QuickSkipRoot ==
    /\ quickIdx <= Len(common_paths)
    /\ common_paths[quickIdx] \notin fs
    /\ quickIdx' = quickIdx + 1
    /\ UNCHANGED <<scan_results, perRoot>>
    /\ UNCHANGED <<envVars, scanVars, cleanVars, classVars, pureVars, fmtVars, flowVars>>

NextQuick == QuickScanRoot \/ QuickSkipRoot
SpecQuick == InitQuick /\ [][NextQuick]_vars

\* the number of entries of category c in the first k per-root results
RECURSIVE LenBefore(_, _)
LenBefore(c, k) == IF k = 0 THEN 0 ELSE Len(perRoot[k][c]) + LenBefore(c, k - 1)

\* C15: in the merged result of the quick scan every category holds the
\* entries of the first scanned folder, then those of the second, and so on,
\* each in the order its own scan gave them, none left out and none dropped as
\* a duplicate: the merged length is the sum of the per-folder lengths.
C15_MergeIsConcatenation ==
    \A c \in CleanupCategories :
        /\ Len(scan_results[c]) = LenBefore(c, Len(perRoot))
        /\ \A k \in 1..Len(perRoot) :
               \A j \in 1..Len(perRoot[k][c]) :
                   scan_results[c][LenBefore(c, k - 1) + j] = perRoot[k][c][j]

C15_Witness ==
    /\ quickIdx > Len(common_paths)
    /\ Len(perRoot) = Len(common_paths)
    /\ \E c \in CleanupCategories :
           /\ \E k1, k2 \in 1..Len(perRoot) : k1 < k2 /\ perRoot[k1][c] # << >> /\ perRoot[k2][c] # << >>
           /\ \E k \in 1..Len(perRoot) : Len(perRoot[k][c]) > 1

(***************************************************************************)
(* The flow of main and of MacSweepGUI: scan, select categories, confirm,  *)
(* clean.  The scan is one step (the function scan_directory above), the   *)
(* cleanup runs path by path with the steps of CleanupEngine.cleanup_files.*)
(***************************************************************************)
\* the entries in the order the scan comes to them: per directory its files,
\* then its kept subdirectories
RECURSIVE ScanOrder(_, _, _, _, _)
ScanOrder(fsys, top, path, maxd, stack) ==
    IF stack = << >> THEN << >>
    ELSE LET d == Head(stack)
             dirs == FilterDirs(ListDirs(fsys, d))
         IN  IF Attr(d).noEnter \/ current_depth(PathOf(top, d), path) >= maxd
             THEN ScanOrder(fsys, top, path, maxd, Tail(stack))
             ELSE ListFiles(fsys, d) \o dirs
                  \o ScanOrder(fsys, top, path, maxd, dirs \o Tail(stack))

\* the keys of the results dict in the order of their first append
RECURSIVE KeyOrder(_, _, _, _)
KeyOrder(res, order, i, acc) ==
    IF i > Len(order) THEN acc
    ELSE LET cs == {c \in CleanupCategories :
                       \E j \in 1..Len(res[c]) : res[c][j].node = order[i]}
         IN  IF cs = {} \/ (CHOOSE c \in cs : TRUE) \in SeqToSet(acc)
             THEN KeyOrder(res, order, i + 1, acc)
             ELSE KeyOrder(res, order, i + 1, Append(acc, CHOOSE c \in cs : TRUE))

\* categories = [cat for cat, files in scan_results.items() if files]
CategoriesOf(fsys) ==
    KeyOrder(results, ScanOrder(fsys, rootStr, rootStr, max_depth, << << >> >>), 1, << >>)
Categories == CategoriesOf(fs)

\* for category in selected_categories: for file_path, size, mtime in
\* scan_results[category]: selected_files.append(file_path)
RECURSIVE CollectPaths(_, _, _)
CollectPaths(res, sel, i) ==
    IF i > Len(sel) THEN << >>
    ELSE [j \in 1..Len(res[sel[i]]) |-> res[sel[i]][j].node] \o CollectPaths(res, sel, i + 1)

\* the confirmation ignored
ConfirmAlways(reply) == TRUE

\* TerminalUI.confirm_cleanup / messagebox.askyesno: only y and yes proceed
confirm_cleanup(reply) == reply \in {"y", "yes"}

Replies == {"y", "yes", "n", "no", "", "interrupt", "eof"}

\* the trees and the removal failures of a flow
FlowTrees == { AllNodes, {n \in AllNodes : ~IsPrefix(<<N_dcache>>, n)} }
FlowLocks == { {}, {<<N_alog>>}, {<<N_nm, N_ijs>>} }

\* strictly increasing index sequences: Listbox.curselection()
Ascending(q) == \A i \in 1..(Len(q) - 1) : q[i] < q[i + 1]

InitFlow ==
    /\ fs \in FlowTrees
    /\ locked \in FlowLocks
    /\ rootStr = <<"/","r">>
    /\ max_depth \in 1..MaxDepthBound
    /\ show_progress = FALSE
    /\ ScanIdle
    /\ paths = << >>
    /\ ui \in {"cli", "gui"}
    /\ dry_run \in (IF ui = "cli" THEN BOOLEAN ELSE {FALSE})
    /\ verbose = FALSE
    /\ CleanIdle
    /\ ClassIdle
    /\ PureIdle /\ FormatIdle /\ QuickIdle
    /\ flowPc = "idle"
    /\ selected_categories = << >>
    /\ answer = "unasked"

\* main lines 873-881, MacSweepGUI.scan: the scan; main returns when nothing
\* was found
FlowScan ==
    /\ flowPc = "idle"
    /\ LET res == scan_directory(fs, rootStr, << >>, max_depth) IN
        /\ results' = res
        /\ flowPc' = IF ui = "cli" /\ \A c \in CleanupCategories : res[c] = << >>
                     THEN "done" ELSE "scanned"
    /\ UNCHANGED <<rootStr, max_depth, show_progress, scanPc, walkStack, total_files,
                   progress, attempts, visited, evaluated, yielded>>
    /\ UNCHANGED <<selected_categories, ui, answer>>
    /\ UNCHANGED <<envVars, cleanVars, classVars, pureVars, fmtVars, quickVars>>

\* select_categories: 'all'
FlowSelectAll ==
    /\ flowPc = "scanned"
    /\ ui = "cli"
    /\ Categories # << >>
    /\ selected_categories' = Categories
    /\ flowPc' = "selected"
    /\ UNCHANGED <<ui, answer>>
    /\ UNCHANGED <<envVars, scanVars, cleanVars, classVars, pureVars, fmtVars, quickVars>>

\* select_categories: numbers separated by commas, any order, repeats allowed;
\* MacSweepGUI.clean: the rows selected in the listbox
FlowSelectNumbers ==
    /\ flowPc = "scanned"
    /\ \E q \in SeqsUpTo(1..Len(Categories), MaxPicks) :
        /\ q # << >>
        /\ ui = "gui" => Ascending(q)
        /\ selected_categories' = [i \in 1..Len(q) |-> Categories[q[i]]]
    /\ flowPc' = "selected"
    /\ UNCHANGED <<ui, answer>>
    /\ UNCHANGED <<envVars, scanVars, cleanVars, classVars, pureVars, fmtVars, quickVars>>

\* select_categories: 'none', 'quit', 'q', Ctrl-C, end of input, or nothing to
\* choose from; MacSweepGUI.clean: no row selected.  The flow returns.
FlowSelectNone ==
    /\ flowPc = "scanned"
    /\ selected_categories' = << >>
    /\ flowPc' = "cancelled"
    /\ UNCHANGED <<ui, answer>>
    /\ UNCHANGED <<envVars, scanVars, cleanVars, classVars, pureVars, fmtVars, quickVars>>

\* confirm_cleanup returns True (askyesno: yes): cleanup_files is called on the
\* collected paths; the GUI sets dry_run from its check box first
FlowConfirmYes ==
    /\ flowPc = "selected"
    /\ \E reply \in Replies :
        /\ confirm_cleanup(reply)
        /\ answer' = reply
    /\ \E b \in BOOLEAN : dry_run' = IF ui = "gui" THEN b ELSE dry_run
    /\ paths' = CollectPaths(results, selected_categories, 1)
    /\ flowPc' = "cleaning"
    /\ clPc' = "running"
    /\ idx' = 1
    /\ files_removed' = 0
    /\ bytes_freed' = 0
    /\ outcome' = << >>
    /\ fs0' = fs
    /\ UNCHANGED <<verbose, calls, selected_categories, ui>>
    /\ UNCHANGED <<envVars, scanVars, classVars, pureVars, fmtVars, quickVars>>

\* confirm_cleanup returns False (askyesno: no): the flow returns
FlowConfirmNo ==
    /\ flowPc = "selected"
    /\ \E reply \in Replies :
        /\ ~confirm_cleanup(reply)
        /\ ui = "gui" => reply = "no"
        /\ answer' = reply
    /\ flowPc' = "cancelled"
    /\ UNCHANGED <<selected_categories, ui>>
    /\ UNCHANGED <<envVars, scanVars, cleanVars, classVars, pureVars, fmtVars, quickVars>>

\* cleanup_files has returned: main prints the totals, the GUI also empties
\* scan_results
FlowFinish ==
    /\ flowPc = "cleaning"
    /\ clPc = "done"
    /\ flowPc' = "done"
    /\ results' = IF ui = "gui" THEN EmptyResults ELSE results
    /\ UNCHANGED <<rootStr, max_depth, show_progress, scanPc, walkStack, total_files,
                   progress, attempts, visited, evaluated, yielded>>
    /\ UNCHANGED <<selected_categories, ui, answer>>
    /\ UNCHANGED <<envVars, cleanVars, classVars, pureVars, fmtVars, quickVars>>

NextFlow ==
    \/ FlowScan
    \/ FlowSelectAll
    \/ FlowSelectNumbers
    \/ FlowSelectNone
    \/ FlowConfirmYes
    \/ FlowConfirmNo
    \/ CleanFile
    \/ CleanFileFails
    \/ CleanTree
    \/ CleanTreeFails
    \/ CleanSkip
    \/ CleanupReturn
    \/ FlowFinish

SpecFlow == InitFlow /\ [][NextFlow]_vars

\* the nodes of the entries of the categories in sel
SelectedNodes(res, sel) ==
    {res[c][j].node : <<c, j>> \in {x \in SeqToSet(sel) \X (1..Len(Everything)) : x[2] <= Len(res[x[1]])}}

C17_DryRunEqualsReal ==
    \A k \in 2..Len(calls) :
        ( /\ calls[k - 1].dry
          /\ ~calls[k].dry
          /\ calls[k].paths = calls[k - 1].paths
          /\ calls[k].before = calls[k - 1].before
          /\ \A i \in 1..Len(calls[k].outcome) : ~calls[k].outcome[i].failed )
        => /\ calls[k].files_removed = calls[k - 1].files_removed
           /\ calls[k].bytes_freed = calls[k - 1].bytes_freed

\* what handling path p does to filesystem fsys
AfterPath(fsys, p, dry) ==
    IF dry THEN fsys
    ELSE IF IsFile(fsys, p) THEN (IF RemovalFails(p) THEN fsys ELSE fsys \ {p})
    ELSE IF IsDir(fsys, p) THEN fsys \ RmtreeRemoved(fsys, p)
    ELSE fsys

\* the filesystem after the first i paths of q, handled in order from fsys
RECURSIVE AfterPaths(_, _, _, _)
AfterPaths(fsys, q, i, dry) ==
    IF i = 0 THEN fsys
    ELSE AfterPath(AfterPaths(fsys, q, i - 1, dry), q[i], dry)

KindOn(fsys, p) == IF IsFile(fsys, p) THEN "file" ELSE IF IsDir(fsys, p) THEN "dir" ELSE "neither"

\* C18: cleanup takes the paths in the order given, one at a time: when the
\* loop stands at path idx exactly the idx - 1 paths before it have been
\* handled, the filesystem is what handling them in order leaves, and what
\* each path was found to be and its size are those it has on the filesystem
\* left by the paths before it, not on the one the call started with.
C18_InOrderOnCurrentState ==
    clPc = "running" =>
        /\ Len(outcome) = idx - 1
        /\ idx <= Len(paths) + 1
        /\ fs = AfterPaths(fs0, paths, Len(outcome), dry_run)
        /\ \A i \in 1..Len(outcome) :
               LET before == AfterPaths(fs0, paths, i - 1, dry_run) IN
               /\ outcome[i].kind = KindOn(before, paths[i])
               /\ outcome[i].size = PreSize(before, paths[i])

C18_Witness ==
    /\ clPc = "running"
    /\ ~dry_run
    /\ Len(outcome) = 2
    /\ IsDir(fs0, paths[2])
    /\ outcome[1].kind = "dir" /\ ~outcome[1].failed
    /\ outcome[2].kind = "neither"

\* the entries the analysis holds under category c
StoredIn(fa, c) == {t \in Stored(fa) : t.category = c}

RECURSIVE SumStored(_)
SumStored(S) ==
    IF S = {} THEN 0
    ELSE LET t == CHOOSE x \in S : TRUE IN t.e.size + SumStored(S \ {t})

\* C19: what is shown for the format analysis.  Every category that has
\* entries is shown once, with file_count the number of its entries and
\* total_bytes the sum of their sizes over all its extensions; the categories
\* come in descending total_bytes and the extensions of a category in
\* descending size; the numbered list of the selection is in that same order,
\* and a number entered returns the category at that position.
C19_TotalsAndOrder ==
    LET shown == Displayed(format_analysis)
        numbered == sorted_categories(format_analysis)
    IN
    /\ {shown[i].category : i \in 1..Len(shown)} =
           {t.category : t \in Stored(format_analysis)}
    /\ \A i \in 1..Len(shown) :
           /\ shown[i].file_count = Cardinality(StoredIn(format_analysis, shown[i].category))
           /\ shown[i].total_bytes = SumStored(StoredIn(format_analysis, shown[i].category))
           /\ \A j \in 1..Len(shown) : shown[i].category = shown[j].category => i = j
           /\ \A j \in 1..Len(shown) : i < j => shown[i].total_bytes >= shown[j].total_bytes
           /\ \A a, b \in 1..Len(shown[i].extensions) :
                  a < b => shown[i].extensions[a].size >= shown[i].extensions[b].size
           /\ \A a \in 1..Len(shown[i].extensions) :
                  shown[i].extensions[a].size =
                      SumStored({t \in StoredIn(format_analysis, shown[i].category) :
                                    t.ext = shown[i].extensions[a].ext})
    /\ Len(numbered) = Len(shown)
    /\ \A i \in 1..Len(shown) : numbered[i].category = shown[i].category
    /\ (fmtPc = "selected" /\ fmtChoice.kind = "numbers") =>
           /\ Len(selected_formats) = Len(fmtChoice.numbers)
           /\ \A i \in 1..Len(selected_formats) :
                  selected_formats[i] = CategoryText[shown[fmtChoice.numbers[i]].category]

C19_Witness ==
    /\ fmtPc = "selected"
    /\ fmtChoice = [kind |-> "numbers", numbers |-> <<2, 1>>]
    /\ selected_formats = <<CategoryText["archives"], CategoryText["images"]>>
    /\ Len(format_analysis) = 4
    /\ format_analysis[1].category = "documents"
    /\ \E i \in 1..Len(format_analysis) :
           /\ format_analysis[i].category = "other"
           /\ Len(format_analysis[i].exts) = 2
           /\ Displayed(format_analysis)[4].extensions[1].ext = format_analysis[i].exts[2].ext

\* the path names something inside the Chrome or the Firefox profile folder
InChromeOrFirefox(path) ==
    \/ Contains(Lower(path), Lower(P_LibChrome))
    \/ Contains(Lower(path), Lower(P_LibFirefox))

EarlierThanBrowser == {"cache", "logs", "backups", "downloads", "trash", "development", "system"}

\* C20: a file or a directory whose path contains
\* Library/Application Support/Google/Chrome or Library/Application
\* Support/Firefox is classified system or a category before it, never
\* browser; browser is returned only for a path containing Library/Safari.
C20_BrowserOnlySafari ==
    /\ cfOut # Pending =>
          /\ InChromeOrFirefox(cfIn.path) => cfOut \in EarlierThanBrowser
          /\ cfOut = "browser" => Contains(Lower(cfIn.path), Lower(P_LibSafari))
    /\ cdOut # Pending =>
          /\ InChromeOrFirefox(cfIn.path) => cdOut \in EarlierThanBrowser
          /\ cdOut = "browser" => Contains(Lower(cfIn.path), Lower(P_LibSafari))

C20_Witness ==
    /\ cfIn.path = Join(<<"/","u","/">> \o P_LibAppSupport \o <<"/","G","o","o","g","l","e">>, N_Chrome)
    /\ cfOut = "system"
    /\ cdOut = "system"

\* ---------------------------------------------------------------------------
\* What cleanup_files leaves alone.
\* ---------------------------------------------------------------------------
\* n is neither one of the paths q nor inside one of them that is a directory
\* of filesystem fsys
Outside(fsys, q, n) ==
    /\ \A i \in 1..Len(q) : q[i] # n
    /\ \A i \in 1..Len(q) : ~(IsDir(fsys, q[i]) /\ Inside(q[i], n))

\* n is the parent, or a parent of the parent, of one of the paths q
AboveListed(q, n) == \E i \in 1..Len(q) : Inside(n, q[i])

\* between the filesystems before and after, every object outside q is still
\* there; a directory outside q that holds none of q measures what it measured
Kept(before, after, q) ==
    \A n \in before :
        Outside(before, q, n) =>
            /\ n \in after
            /\ ~AboveListed(q, n) => PreSize(after, n) = PreSize(before, n)

NextCollect == Collect
SpecCollect == InitCollect /\ [][NextCollect]_vars

\* how often entry e is in the list q
Times(q, e) == Cardinality({k \in 1..Len(q) : q[k] = e})

IsSelected(t, selected) ==
    t.ext \in SeqToSet(selected) \/ CategoryText[t.category] \in SeqToSet(selected)

\* C22: collect_files_by_formats returns the entries of the analysis whose
\* category or whose extension key is in the list and nothing else: such an
\* entry is in the result once, also when both names are in the list or a
\* name is in it twice, an entry with neither name in the list is not in
\* the result, and the result holds nothing the analysis does not hold.
C22_CollectExact ==
    fmtPc = "collected" =>
        /\ \A t \in Stored(format_analysis) :
               Times(collected_files, t.e) = IF IsSelected(t, selected_formats) THEN 1 ELSE 0
        /\ \A k \in 1..Len(collected_files) :
               \E t \in Stored(format_analysis) : t.e = collected_files[k]

C22_Witness ==
    /\ fmtPc = "collected"
    /\ selected_formats = << <<".","p","d","f">>, CategoryText["documents"] >>
    /\ \E t \in Stored(format_analysis) :
          /\ t.e.node = <<N_Downloads, N_reportPDF>>
          /\ t.category = "documents"
          /\ Times(collected_files, t.e) = 1
    /\ \E t \in Stored(format_analysis) :
          /\ t.e.node = <<N_Downloads, N_photojpeg>>
          /\ Times(collected_files, t.e) = 0
    /\ Len(collected_files) >= 2

====
